---------------------------- MODULE Spec2Model ----------------------------
(***************************************************************************)
(* smoothG: nonlinear multigrid (FAS) driver, level-solver steps and       *)
(* backtracking, the upscaling objects and the spectral coarsener.         *)
(*                                                                         *)
(* Seven specifications share this module:                                 *)
(*   SpecFAS  NonlinearMG::Solve / FAS_Cycle driven by EllipticNLMG        *)
(*   SpecBT   LevelSolver::BackTracking                                    *)
(*   SpecLS   LevelSolver::IterationStep (PicardStep, NewtonStep)          *)
(*   SpecUp   FiniteVolumeMLMC / GraphUpscale construction and rescaling   *)
(*   SpecCo   SpectralAMG_MGL_Coarsener, one level pair                    *)
(*   SpecGr   Graph::Distribute and MixedMatrix::ConstructD                *)
(*   SpecPar  NonlinearMG::Solve on several processes (collectives)        *)
(*                                                                         *)
(* Numbers.  Vectors are sequences of integers.  Values of the nonlinear   *)
(* operator A(x), right-hand sides and residuals are fixed-point numbers   *)
(* with ExpShift fractional bits; std::exp is modelled in base 2 on the    *)
(* integer products alpha*p and saturates outside [-ExpShift, ExpShift],   *)
(* as the floating-point exp saturates outside its range.  Norms are kept  *)
(* squared, so "norm < tol" is compared as "norm^2 < tol^2".  Except in    *)
(* SpecGr and SpecPar the model has one process: AssembleTrueVector is the *)
(* identity and the parallel norm is the local norm.                       *)
(***************************************************************************)
EXTENDS Integers, Sequences, FiniteSets, TLC

\* ------------------------------------------------------------ bounds ----
MaxLevels == 3
MaxIter == 2
MaxSolves == 2
ExpShift == 4
MaxBacktrack == 2
MaxRescale == 2
MaxUpLevels == 3
MaxSteps == 2
MaxEdges == 2

VARIABLES
    \* process-wide state of examples/nldarcy.cpp
    alpha,          \* the file-scope exponent used by Kappa and dKinv_dp
    \* NonlinearMG / EllipticNLMG
    alpha_ctor,     \* history: value of alpha when the solver was constructed
    num_levels_, cycle_, max_num_iter_, tol_, relax_,
    rhs_, sol_, help_, residual_,
    p_, kp_, lin_tol_,
    iter_, converged_, norm_,
    rhs_arg, sol_arg, sol_in,
    spc, stack, solves,
    \* history of the current Solve call / FAS cycle
    cycles, calls, lsolves, xfers, maxdepth, hist,
    \* history of the Solve calls that have returned
    returned

VARIABLES
    \* LevelSolver::BackTracking (one call)
    bt_pc, bt_interlopate, max_num_backtrack_, log_diff_tol_,
    bt_x, bt_dx, bt_k, resid_norm_, bt_prev, print_help,
    bt_x0, bt_dx0, bt_land, bt_stalled

btvars == << bt_pc, bt_interlopate, max_num_backtrack_, log_diff_tol_,
             bt_x, bt_dx, bt_k, resid_norm_, bt_prev, print_help,
             bt_x0, bt_dx0, bt_land, bt_stalled >>

VARIABLES
    \* Upscale objects: FiniteVolumeMLMC (both definitions), GraphUpscale
    up_class, hybridization_, coarse_components_, ess_attr_, max_levels_,
    mbuilder_, M_, D_, solver_, agg_scaling_, up_pc, up_level, rescales

upvars == << up_class, hybridization_, coarse_components_, ess_attr_,
             max_levels_, mbuilder_, M_, D_, solver_, agg_scaling_, up_pc,
             up_level, rescales >>

VARIABLES
    \* SpectralAMG_MGL_Coarsener: one level pair
    co_pc, co_n, co_aggs, spect_tol, max_evects, co_targets,
    co_x, co_div, co_div_restricted, co_restricted_div

covars == << co_pc, co_n, co_aggs, spect_tol, max_evects, co_targets,
             co_x, co_div, co_div_restricted, co_restricted_div >>

VARIABLES
    \* LevelSolver::IterationStep (one level solver, its steps)
    ls_pc, level_, solve_type_, taylor_, ess_dofs_,
    ls_max_num_backtrack, ls_log_diff_tol,
    ls_rhs, ls_x, ls_delta_x, ls_residual, ls_p, ls_kp, ls_dMdp, ls_coef,
    prev_resid_norm_, ls_resid_norm, linear_resid_norm_, ls_print_help,
    \* history of the current step
    ls_rhs_in, ls_x_in, ls_lin, ls_bt, ls_steps

lsvars == << ls_pc, level_, solve_type_, taylor_, ess_dofs_,
             ls_max_num_backtrack, ls_log_diff_tol,
             ls_rhs, ls_x, ls_delta_x, ls_residual, ls_p, ls_kp, ls_dMdp,
             ls_coef, prev_resid_norm_, ls_resid_norm, linear_resid_norm_,
             ls_print_help, ls_rhs_in, ls_x_in, ls_lin, ls_bt, ls_steps >>

VARIABLES
    \* Graph::Distribute and MixedMatrix::ConstructD on every process
    gr_step, gr_proc, num_procs, vert_edge_global, partition,
    edge_weight_global,
    \* per process (rank -> value)
    vert_loc_to_glo_, edge_loc_to_glo_, vertex_edge_local_, edge_trueedge_,
    edge_weight_local, edge_weight_split_, gr_D, gr_asserts

VARIABLES
    \* NonlinearMG::Solve on every process of comm_ (rank -> value)
    par_pc, par_cont, par_op, par_dest, par_part, par_val, par_iter,
    par_converged, par_level, par_stage, par_k, par_count

parvars == << par_pc, par_cont, par_op, par_dest, par_part, par_val,
              par_iter, par_converged, par_level, par_stage, par_k,
              par_count >>

grvars == << gr_step, gr_proc, num_procs, vert_edge_global, partition,
             edge_weight_global, vert_loc_to_glo_, edge_loc_to_glo_,
             vertex_edge_local_, edge_trueedge_, edge_weight_local,
             edge_weight_split_, gr_D, gr_asserts >>

fasrest == << alpha_ctor, num_levels_, cycle_, max_num_iter_, tol_,
              relax_, rhs_, sol_, help_, residual_, p_, kp_, lin_tol_,
              iter_, converged_, norm_, rhs_arg, sol_arg, sol_in,
              spc, stack, solves, cycles, calls, lsolves, xfers, maxdepth,
              hist, returned >>

fasvars == << alpha, fasrest >>

vars == << fasvars, btvars, upvars, covars, lsvars, grvars, parvars >>

\* ----------------------------------------------------- vector helpers ----
Levels == 0 .. (num_levels_ - 1)

ZeroVec(n) == [i \in 1..n |-> 0]

ConstVec(n, c) == [i \in 1..n |-> c]

VecSub(a, b) == [i \in 1..Len(a) |-> a[i] - b[i]]

RECURSIVE SumSq(_, _)
SumSq(v, n) == IF n = 0 THEN 0 ELSE v[n] * v[n] + SumSq(v, n - 1)

\* mfem::ParNormlp(v, 2, comm), squared
NormSq(v) == SumSq(v, Len(v))

\* -------------------------------------------------- hierarchy (sizes) ----
\* Level l of the hierarchy is a path graph with num_levels_ - l vertices
\* and as many edges (the last edge is a boundary edge), one dof per
\* vertex and per edge.
NumVertices(level) == num_levels_ - level

Offsets(level) == << 0, NumVertices(level), 2 * NumVertices(level) >>

LevelSize(level) == Offsets(level)[3]

Block0(level, x) == [i \in 1..NumVertices(level) |-> x[i]]

Block1(level, x) == [i \in 1..NumVertices(level) |-> x[NumVertices(level) + i]]

PWConstProject(level, u) == u

\* ------------------------------------------------ nonlinear coefficient ----
ExpScale == 2 ^ ExpShift

ExpArg(n) == IF n > ExpShift THEN ExpShift
             ELSE IF n < 0 - ExpShift THEN 0 - ExpShift ELSE n

\* std::exp, fixed point
Exp(n) == 2 ^ (ExpShift + ExpArg(n))

\* Kappa(p) = exp(alpha p), with the process-wide alpha
Kappa(p) == [i \in 1..Len(p) |-> Exp(alpha * p[i])]

\* 1 / kp, fixed point
KInv(k) == (ExpScale * ExpScale) \div k

\* the divergence D of a level with n vertices: edge e leaves vertex e
\* (towards vertex e + 1, or the boundary for e = n)
Div(n, sg) == [v \in 1..n |-> sg[v] - (IF v > 1 THEN sg[v - 1] ELSE 0)]

\* MixedMatrix::Mult(kp, x, Ax): [[M(kp), D^T], [D, 0]] x
MixedMult(level, kp, x) ==
    LET n == NumVertices(level)
        sg == Block0(level, x)
        u == Block1(level, x)
        Md(e) == KInv(kp[e]) + (IF e < n THEN KInv(kp[e + 1]) ELSE 0)
        flux(e) == Md(e) * sg[e]
                   + ExpScale * (u[e] - (IF e < n THEN u[e + 1] ELSE 0))
        pres(v) == ExpScale * Div(n, sg)[v]
    IN  [i \in 1..(2 * n) |-> IF i <= n THEN flux(i) ELSE pres(i - n)]

\* LevelSolver::EvalCoef: p_ = PWConstProject(x.block1), kp_ = Kappa(p_)
EvalCoef(level, x) ==
    LET p == PWConstProject(level, Block1(level, x))
    IN  [p |-> p, kp |-> Kappa(p)]

\* LevelSolver::Mult: Ax = A(x)
LevelMult(level, x) == MixedMult(level, EvalCoef(level, x).kp, x)

\* || A_level(sol) - rhs ||^2
ResidualNormSq(level, sol, rhs) == NormSq(VecSub(LevelMult(level, sol), rhs))

\* ------------------------------------------------- transfer operators ----
\* Fine level `level` has n vertices, the coarse level n - 1: fine vertex
\* i < n is aggregate i, fine vertex n joins aggregate n - 1.  Edge n - 1
\* is interior to the last aggregate; the other edges are the faces, so
\* coarse edge j < n - 1 is fine edge j and coarse edge n - 1 is fine
\* edge n.
Agg(n, i) == IF i < n THEN i ELSE n - 1

\* Pu
InterpBlock(n, c) == [i \in 1..n |-> c[Agg(n, i)]]

\* Pu^T
RestrictBlock(n, f) ==
    [j \in 1..(n - 1) |-> f[j] + (IF j = n - 1 THEN f[n] ELSE 0)]

\* the projection onto the pressure targets
ProjectBlock(n, f) == [j \in 1..(n - 1) |-> f[j]]

\* Psigma
InterpSigma(n, c) ==
    [i \in 1..n |-> IF i < n - 1 THEN c[i]
                    ELSE IF i = n THEN c[n - 1] ELSE 0]

\* variant: the interior edge is added to the last face
RestrictSigma_Sum(n, f) ==
    [j \in 1..(n - 1) |-> f[j] + (IF j = n - 1 THEN f[n] ELSE 0)]

\* Psigma^T (also the projection onto the traces)
RestrictSigma(n, f) ==
    [j \in 1..(n - 1) |-> IF j < n - 1 THEN f[j] ELSE f[n]]

\* Hierarchy::Restrict(level, fine): P^T per block, level -> level + 1
HRestrict(level, fine) ==
    RestrictSigma(NumVertices(level), Block0(level, fine))
    \o RestrictBlock(NumVertices(level), Block1(level, fine))

\* Hierarchy::Interpolate(level, coarse): P per block, level -> level - 1
HInterpolate(level, coarse) ==
    InterpSigma(NumVertices(level - 1), Block0(level, coarse))
    \o InterpBlock(NumVertices(level - 1), Block1(level, coarse))

\* Hierarchy::Project(level, fine): projection, level -> level + 1
HProject(level, fine) ==
    RestrictSigma(NumVertices(level), Block0(level, fine))
    \o ProjectBlock(NumVertices(level), Block1(level, fine))

\* --------------------------------------------------- level solver ----
SolVals == {0, 1}

RelaxKinds == {"none", "best", "flip"}

SmoothCandidates(level) == {ConstVec(LevelSize(level), c) : c \in SolVals}

\* LevelSolver::Solve(rhs, sol): the relaxation of one level, a fixed number
\* of Picard/Newton steps around the external linear solver.  Its result is
\* a deterministic function of (rhs, sol); the kind of function is a
\* parameter of the problem instance:
\*   "none"  zero relaxation steps, sol is left as it is
\*   "best"  an accurate solve: the candidate of least residual norm
\*   "flip"  an oscillating fixed-point iteration
LevelSolve(level, rhs, sol) ==
    LET cands == SmoothCandidates(level)
        r(c) == ResidualNormSq(level, c, rhs)
        least(c) == \A d \in cands \cup {sol} : r(c) <= r(d)
    IN  CASE relax_ = "none" -> sol
          [] relax_ = "best" ->
                IF least(sol) THEN sol ELSE CHOOSE c \in cands : least(c)
          [] relax_ = "flip" ->
                ConstVec(LevelSize(level), 1 - (sol[Len(sol)] % 2))

\* ------------------------------------------------------ NonlinearMG ----
Frame(level) == [level |-> level, pc |-> "enter", help_2 |-> << >>]

Top == stack[Len(stack)]

SetTop(f) == [stack EXCEPT ![Len(stack)] = f]

TopAt(pc) == spc = "cycle" /\ stack # << >> /\ Top.pc = pc

Goto(pc) == stack' = SetTop([Top EXCEPT !.pc = pc])

\* variant: the absolute test is dropped
ConvergenceTest_RelOnly(resid_sq, norm_sq) ==
    norm_sq > 0 /\ resid_sq * tol_.rden_sq < tol_.rnum_sq * norm_sq

\* resid < atol_ || rel_resid < rtol_, with rel_resid = resid / norm
\* (resid / 0 is +inf or NaN and compares false)
ConvergenceTest(resid_sq, norm_sq) ==
    \/ resid_sq < tol_.asq
    \/ norm_sq > 0 /\ resid_sq * tol_.rden_sq < tol_.rnum_sq * norm_sq

\* variant: the counter advances by two
NextIter_Twice(i) == i + 2

\* iter_++ of the for loop
NextIter(i) == i + 1

\* variant: the recursion stops one level early
IsCoarsest_Early(level) == level >= num_levels_ - 2

\* level == num_levels_ - 1
IsCoarsest(level) == level = num_levels_ - 1

cfgvars == << alpha_ctor, num_levels_, cycle_, max_num_iter_, tol_, relax_ >>

ghostcycle == << calls, lsolves, xfers, maxdepth >>

\* main: alpha = alpha_ (the sweep over alpha_choices before each Solve)
AlphaChoices == {1, 2}

MainSetAlpha(a) ==
    /\ spc \in {"idle", "done"}
    /\ solves < MaxSolves
    /\ a # alpha
    /\ alpha' = a
    /\ spc' = "idle"
    /\ UNCHANGED << cfgvars, rhs_, sol_, help_, residual_, p_, kp_, lin_tol_,
                    iter_, converged_, norm_, rhs_arg, sol_arg, sol_in,
                    stack, solves, cycles, ghostcycle, hist, returned >>

\* NonlinearMG::Solve, up to the loop
Solve_Begin(rhs, sol) ==
    /\ spc \in {"idle", "done"}
    /\ solves < MaxSolves
    /\ LET zero_vec == ZeroVec(Len(sol))
           ev == EvalCoef(0, zero_vec)
           res == VecSub(LevelMult(0, zero_vec), rhs)
       IN  /\ residual_' = res
           /\ p_' = [p_ EXCEPT ![0] = ev.p]
           /\ kp_' = [kp_ EXCEPT ![0] = ev.kp]
           /\ norm_' = NormSq(res)
    /\ rhs_' = [rhs_ EXCEPT ![0] = rhs]
    /\ sol_' = [sol_ EXCEPT ![0] = sol]
    /\ converged_' = FALSE
    /\ iter_' = 0
    /\ spc' = "loop"
    /\ rhs_arg' = rhs
    /\ sol_arg' = sol
    /\ sol_in' = sol
    /\ solves' = solves + 1
    /\ cycles' = 0
    /\ hist' = << >>
    /\ UNCHANGED << alpha, cfgvars, help_, lin_tol_, stack, ghostcycle,
                    returned >>

\* one pass of the loop head: residual, convergence test, FAS_Cycle(0)
Solve_Iterate ==
    /\ spc = "loop"
    /\ iter_ < max_num_iter_
    /\ LET ev == EvalCoef(0, sol_[0])
           res == VecSub(LevelMult(0, sol_[0]), rhs_arg)
       IN  /\ residual_' = res
           /\ p_' = [p_ EXCEPT ![0] = ev.p]
           /\ kp_' = [kp_ EXCEPT ![0] = ev.kp]
           /\ IF ConvergenceTest(NormSq(res), norm_)
              THEN /\ converged_' = TRUE
                   /\ spc' = "exit"
                   /\ UNCHANGED << stack, cycles, ghostcycle >>
              ELSE /\ spc' = "cycle"
                   /\ stack' = << Frame(0) >>
                   /\ cycles' = cycles + 1
                   /\ calls' = [l \in Levels |-> IF l = 0 THEN 1 ELSE 0]
                   /\ lsolves' = [l \in Levels |-> 0]
                   /\ xfers' = [l \in Levels |-> 0]
                   /\ maxdepth' = 1
                   /\ UNCHANGED converged_
    /\ UNCHANGED << alpha, cfgvars, rhs_, sol_, help_, lin_tol_, iter_, norm_,
                    rhs_arg, sol_arg, sol_in, solves, hist, returned >>

\* the loop bound is reached
Solve_LoopExit ==
    /\ spc = "loop"
    /\ ~(iter_ < max_num_iter_)
    /\ spc' = "exit"
    /\ UNCHANGED << alpha, cfgvars, rhs_, sol_, help_, residual_, p_, kp_,
                    lin_tol_, iter_, converged_, norm_, rhs_arg, sol_arg,
                    sol_in, stack, solves, cycles, ghostcycle, hist,
                    returned >>

\* what a returning call leaves with its caller, with what it was given
SolveRecord(out) ==
    [alpha |-> alpha, rhs |-> rhs_arg, sol |-> sol_in, out |-> out,
     converged |-> converged_, iter |-> iter_, hist |-> hist]

\* variant: the caller's vector is left as it came in
Solve_Return_KeepInput ==
    /\ spc = "exit"
    /\ sol_arg' = sol_in
    /\ spc' = "done"
    /\ returned' = Append(returned, SolveRecord(sol_in))
    /\ UNCHANGED << alpha, cfgvars, rhs_, sol_, help_, residual_, p_, kp_,
                    lin_tol_, iter_, converged_, norm_, rhs_arg, sol_in,
                    stack, solves, cycles, ghostcycle, hist >>

\* sol = sol_[0]
Solve_Return ==
    /\ spc = "exit"
    /\ sol_arg' = sol_[0]
    /\ spc' = "done"
    /\ returned' = Append(returned, SolveRecord(sol_[0]))
    /\ UNCHANGED << alpha, cfgvars, rhs_, sol_, help_, residual_, p_, kp_,
                    lin_tol_, iter_, converged_, norm_, rhs_arg, sol_in,
                    stack, solves, cycles, ghostcycle, hist >>

\* ------------------------------------------------------- FAS_Cycle ----
solvefix == << alpha, cfgvars, residual_, converged_, norm_, rhs_arg,
               sol_arg, sol_in, solves, cycles, returned >>

\* EllipticNLMG::Smoothing(level, rhs_[level], sol_[level])
Smoothing(level) ==
    LET out == LevelSolve(level, rhs_[level], sol_[level])
        ev == EvalCoef(level, out)
    IN  /\ lin_tol_' = [lin_tol_ EXCEPT ![level] = "smoothing"]
        /\ sol_' = [sol_ EXCEPT ![level] = out]
        /\ p_' = IF relax_ = "none" THEN p_ ELSE [p_ EXCEPT ![level] = ev.p]
        /\ kp_' = IF relax_ = "none" THEN kp_
                  ELSE [kp_ EXCEPT ![level] = ev.kp]
        /\ lsolves' = [lsolves EXCEPT ![level] = @ + 1]

\* level == num_levels_ - 1: Solve(level, rhs_[level], sol_[level])
FAS_CoarsestSolve ==
    /\ TopAt("enter")
    /\ IsCoarsest(Top.level)
    /\ Smoothing(Top.level)
    /\ Goto("ret")
    /\ UNCHANGED << solvefix, rhs_, help_, iter_, spc, hist,
                    calls, xfers, maxdepth >>

\* Pre-smoothing, cycle_ == V_CYCLE
FAS_PreSmooth ==
    /\ TopAt("enter")
    /\ ~IsCoarsest(Top.level)
    /\ cycle_ = "V_CYCLE"
    /\ Smoothing(Top.level)
    /\ Goto("resid")
    /\ UNCHANGED << solvefix, rhs_, help_, iter_, spc, hist,
                    calls, xfers, maxdepth >>

\* cycle_ != V_CYCLE: no pre-smoothing
FAS_NoPreSmooth ==
    /\ TopAt("enter")
    /\ ~IsCoarsest(Top.level)
    /\ cycle_ # "V_CYCLE"
    /\ Goto("resid")
    /\ UNCHANGED << solvefix, rhs_, sol_, help_, p_, kp_, lin_tol_, iter_,
                    spc, hist, ghostcycle >>

\* variant: the operator adds to what help_[level] held
FAS_Residual_Accumulate ==
    /\ TopAt("resid")
    /\ LET l == Top.level
           ev == EvalCoef(l, sol_[l])
           Ax == LevelMult(l, sol_[l])
       IN  /\ help_' = [help_ EXCEPT
                          ![l] = [i \in 1..Len(@) |->
                                     @[i] + Ax[i] - rhs_[l][i]]]
           /\ p_' = [p_ EXCEPT ![l] = ev.p]
           /\ kp_' = [kp_ EXCEPT ![l] = ev.kp]
    /\ Goto("restrict")
    /\ UNCHANGED << solvefix, rhs_, sol_, lin_tol_, iter_, spc, hist,
                    ghostcycle >>

\* Mult(level, sol_[level], help_[level]); help_[level] -= rhs_[level]
FAS_Residual ==
    /\ TopAt("resid")
    /\ LET l == Top.level
           ev == EvalCoef(l, sol_[l])
       IN  /\ help_' = [help_ EXCEPT
                          ![l] = VecSub(LevelMult(l, sol_[l]), rhs_[l])]
           /\ p_' = [p_ EXCEPT ![l] = ev.p]
           /\ kp_' = [kp_ EXCEPT ![l] = ev.kp]
    /\ Goto("restrict")
    /\ UNCHANGED << solvefix, rhs_, sol_, lin_tol_, iter_, spc, hist,
                    ghostcycle >>

\* variant: the restriction also clears its input
FAS_Restrict_ClearsInput ==
    /\ TopAt("restrict")
    /\ LET l == Top.level
       IN  /\ help_' = [help_ EXCEPT ![l + 1] = HRestrict(l, help_[l]),
                                     ![l] = ZeroVec(Len(help_[l]))]
           /\ xfers' = [xfers EXCEPT ![l] = @ + 1]
    /\ Goto("project")
    /\ UNCHANGED << solvefix, rhs_, sol_, p_, kp_, lin_tol_, iter_, spc,
                    hist, calls, lsolves, maxdepth >>

\* Restrict(level, help_[level], help_[level + 1])
FAS_Restrict ==
    /\ TopAt("restrict")
    /\ LET l == Top.level
       IN  /\ help_' = [help_ EXCEPT ![l + 1] = HRestrict(l, help_[l])]
           /\ xfers' = [xfers EXCEPT ![l] = @ + 1]
    /\ Goto("project")
    /\ UNCHANGED << solvefix, rhs_, sol_, p_, kp_, lin_tol_, iter_, spc,
                    hist, calls, lsolves, maxdepth >>

\* variant: the iterate is moved by the restriction
FAS_Project_ByRestrict ==
    /\ TopAt("project")
    /\ LET l == Top.level
       IN  /\ sol_' = [sol_ EXCEPT ![l + 1] = HRestrict(l, sol_[l])]
           /\ xfers' = [xfers EXCEPT ![l] = @ + 1]
    /\ Goto("crhs")
    /\ UNCHANGED << solvefix, rhs_, help_, p_, kp_, lin_tol_, iter_, spc,
                    hist, calls, lsolves, maxdepth >>

\* Project(level, sol_[level], sol_[level + 1])
FAS_Project ==
    /\ TopAt("project")
    /\ LET l == Top.level
       IN  /\ sol_' = [sol_ EXCEPT ![l + 1] = HProject(l, sol_[l])]
           /\ xfers' = [xfers EXCEPT ![l] = @ + 1]
    /\ Goto("crhs")
    /\ UNCHANGED << solvefix, rhs_, help_, p_, kp_, lin_tol_, iter_, spc,
                    hist, calls, lsolves, maxdepth >>

\* variant: the residual is also subtracted from the level's own rhs
FAS_CoarseRhs_OwnLevel ==
    /\ TopAt("crhs")
    /\ LET l == Top.level
           c == Top.level + 1
           ev == EvalCoef(c, sol_[c])
       IN  /\ rhs_' = [rhs_ EXCEPT
                         ![c] = VecSub(LevelMult(c, sol_[c]), help_[c]),
                         ![l] = VecSub(rhs_[l], help_[l])]
           /\ p_' = [p_ EXCEPT ![c] = ev.p]
           /\ kp_' = [kp_ EXCEPT ![c] = ev.kp]
    /\ Goto("store")
    /\ UNCHANGED << solvefix, sol_, help_, lin_tol_, iter_, spc, hist,
                    ghostcycle >>

\* Mult(level + 1, sol_[level + 1], rhs_[level + 1]);
\* rhs_[level + 1] -= help_[level + 1]
FAS_CoarseRhs ==
    /\ TopAt("crhs")
    /\ LET c == Top.level + 1
           ev == EvalCoef(c, sol_[c])
       IN  /\ rhs_' = [rhs_ EXCEPT
                         ![c] = VecSub(LevelMult(c, sol_[c]), help_[c])]
           /\ p_' = [p_ EXCEPT ![c] = ev.p]
           /\ kp_' = [kp_ EXCEPT ![c] = ev.kp]
    /\ Goto("store")
    /\ UNCHANGED << solvefix, sol_, help_, lin_tol_, iter_, spc, hist,
                    ghostcycle >>

\* mfem::Vector help_2 = sol_[level + 1]
FAS_Store ==
    /\ TopAt("store")
    /\ stack' = SetTop([Top EXCEPT !.pc = "recurse",
                                   !.help_2 = sol_[Top.level + 1]])
    /\ UNCHANGED << solvefix, rhs_, sol_, help_, p_, kp_, lin_tol_, iter_,
                    spc, hist, ghostcycle >>

\* FAS_Cycle(level + 1)
FAS_Recurse ==
    /\ TopAt("recurse")
    /\ LET c == Top.level + 1
       IN  /\ stack' = Append(SetTop([Top EXCEPT !.pc = "correct"]), Frame(c))
           /\ calls' = [calls EXCEPT ![c] = @ + 1]
           /\ maxdepth' = IF Len(stack) + 1 > maxdepth
                          THEN Len(stack) + 1 ELSE maxdepth
    /\ UNCHANGED << solvefix, rhs_, sol_, help_, p_, kp_, lin_tol_, iter_,
                    spc, hist, lsolves, xfers >>

\* help_2 -= sol_[level + 1]
FAS_Correct ==
    /\ TopAt("correct")
    /\ stack' = SetTop([Top EXCEPT
                          !.pc = "interp",
                          !.help_2 = VecSub(@, sol_[Top.level + 1])])
    /\ UNCHANGED << solvefix, rhs_, sol_, help_, p_, kp_, lin_tol_, iter_,
                    spc, hist, ghostcycle >>

\* variant: the coarse correction is copied without interpolation
FAS_Interpolate_Copy ==
    /\ TopAt("interp")
    /\ LET l == Top.level
       IN  /\ help_' = [help_ EXCEPT ![l] = Top.help_2]
           /\ xfers' = [xfers EXCEPT ![l] = @ + 1]
    /\ Goto("update")
    /\ UNCHANGED << solvefix, rhs_, sol_, p_, kp_, lin_tol_, iter_, spc,
                    hist, calls, lsolves, maxdepth >>

\* Interpolate(level + 1, help_2, help_[level])
FAS_Interpolate ==
    /\ TopAt("interp")
    /\ LET l == Top.level
       IN  /\ help_' = [help_ EXCEPT ![l] = HInterpolate(l + 1, Top.help_2)]
           /\ xfers' = [xfers EXCEPT ![l] = @ + 1]
    /\ Goto("update")
    /\ UNCHANGED << solvefix, rhs_, sol_, p_, kp_, lin_tol_, iter_, spc,
                    hist, calls, lsolves, maxdepth >>

\* variant: the correction is added
FAS_Update_Add ==
    /\ TopAt("update")
    /\ LET l == Top.level
       IN  sol_' = [sol_ EXCEPT ![l] = [i \in 1..Len(@) |-> @[i] + help_[l][i]]]
    /\ Goto("post")
    /\ UNCHANGED << solvefix, rhs_, help_, p_, kp_, lin_tol_, iter_, spc,
                    hist, ghostcycle >>

\* sol_[level] -= help_[level]
FAS_Update ==
    /\ TopAt("update")
    /\ LET l == Top.level
       IN  sol_' = [sol_ EXCEPT ![l] = VecSub(@, help_[l])]
    /\ Goto("post")
    /\ UNCHANGED << solvefix, rhs_, help_, p_, kp_, lin_tol_, iter_, spc,
                    hist, ghostcycle >>

\* variant: no post-smoothing
FAS_PostSmooth_Skip ==
    /\ TopAt("post")
    /\ Goto("ret")
    /\ UNCHANGED << solvefix, rhs_, sol_, help_, p_, kp_, lin_tol_, iter_,
                    spc, hist, ghostcycle >>

\* Post-smoothing
FAS_PostSmooth ==
    /\ TopAt("post")
    /\ Smoothing(Top.level)
    /\ Goto("ret")
    /\ UNCHANGED << solvefix, rhs_, help_, iter_, spc, hist,
                    calls, xfers, maxdepth >>

\* return from FAS_Cycle(level); at level 0 back to the loop of Solve
FAS_Return ==
    /\ TopAt("ret")
    /\ stack' = SubSeq(stack, 1, Len(stack) - 1)
    /\ IF Len(stack) = 1
       THEN /\ iter_' = NextIter(iter_)
            /\ spc' = "loop"
            /\ hist' = Append(hist, [x |-> sol_[0],
                                     r |-> ResidualNormSq(0, sol_[0], rhs_arg),
                                     vecs |-> << rhs_, sol_, help_ >>])
       ELSE UNCHANGED << iter_, spc, hist >>
    /\ UNCHANGED << solvefix, rhs_, sol_, help_, p_, kp_, lin_tol_,
                    ghostcycle >>

\* ------------------------------------------------------ SpecFAS ----
TolChoices == {[asq |-> 1, rnum_sq |-> 1, rden_sq |-> 16]}

CycleKinds == {"V_CYCLE", "FMG"}

SolGuesses == SmoothCandidates(0)

PressureLoad ==
    [i \in 1..LevelSize(0) |-> IF i <= NumVertices(0) THEN 0 ELSE ExpScale]

RhsChoices == {LevelMult(0, s) : s \in SolGuesses} \cup {PressureLoad}

\* state after EllipticNLMG::EllipticNLMG
FASConstructed ==
    /\ alpha_ctor = alpha
    /\ rhs_ = [l \in Levels |-> IF l > 0 THEN ZeroVec(LevelSize(l)) ELSE << >>]
    /\ sol_ = [l \in Levels |-> IF l > 0 THEN ZeroVec(LevelSize(l)) ELSE << >>]
    /\ help_ = [l \in Levels |-> ZeroVec(LevelSize(l))]
    /\ residual_ = << >>
    /\ p_ = [l \in Levels |-> << >>]
    /\ kp_ = [l \in Levels |-> << >>]
    /\ lin_tol_ = [l \in Levels |-> "init"]
    /\ iter_ = 0
    /\ converged_ = FALSE
    /\ norm_ = 0
    /\ rhs_arg = << >>
    /\ sol_arg = << >>
    /\ sol_in = << >>
    /\ spc = "idle"
    /\ stack = << >>
    /\ solves = 0
    /\ cycles = 0
    /\ calls = [l \in Levels |-> 0]
    /\ lsolves = [l \in Levels |-> 0]
    /\ xfers = [l \in Levels |-> 0]
    /\ maxdepth = 0
    /\ hist = << >>
    /\ returned = << >>

\* a constructed solver that is never used (the other specifications)
FASIdle ==
    /\ num_levels_ = 1
    /\ cycle_ = "V_CYCLE"
    /\ max_num_iter_ = 0
    /\ tol_ \in TolChoices
    /\ relax_ = "none"
    /\ FASConstructed

\* no backtracking call in progress (the other specifications)
BTIdle ==
    /\ bt_pc = "off"
    /\ bt_interlopate = FALSE
    /\ max_num_backtrack_ = 0
    /\ log_diff_tol_ = 0
    /\ bt_x = << >>
    /\ bt_dx = << >>
    /\ bt_k = 0
    /\ resid_norm_ = 0
    /\ bt_prev = 0
    /\ print_help = 0
    /\ bt_x0 = << >>
    /\ bt_dx0 = << >>
    /\ bt_land = << >>
    /\ bt_stalled = FALSE

\* no Upscale object (the other specifications)
UpIdle ==
    /\ up_class = "none"
    /\ hybridization_ = FALSE
    /\ coarse_components_ = FALSE
    /\ ess_attr_ = FALSE
    /\ max_levels_ = 0
    /\ mbuilder_ = << >>
    /\ M_ = << >>
    /\ D_ = << >>
    /\ solver_ = << >>
    /\ agg_scaling_ = << >>
    /\ up_pc = "off"
    /\ up_level = 0
    /\ rescales = 0

\* no coarsener at work (the other specifications)
CoIdle ==
    /\ co_pc = "off"
    /\ co_n = 0
    /\ co_aggs = << >>
    /\ spect_tol = 0
    /\ max_evects = 0
    /\ co_targets = << >>
    /\ co_x = << >>
    /\ co_div = << >>
    /\ co_div_restricted = << >>
    /\ co_restricted_div = << >>

\* no level solver stepping on its own (the other specifications)
LSIdle ==
    /\ ls_pc = "off"
    /\ level_ = 0
    /\ solve_type_ = "Picard"
    /\ taylor_ = FALSE
    /\ ess_dofs_ = << >>
    /\ ls_max_num_backtrack = 0
    /\ ls_log_diff_tol = 0
    /\ ls_rhs = << >>
    /\ ls_x = << >>
    /\ ls_delta_x = << >>
    /\ ls_residual = << >>
    /\ ls_p = << >>
    /\ ls_kp = << >>
    /\ ls_dMdp = << >>
    /\ ls_coef = << >>
    /\ prev_resid_norm_ = 0
    /\ ls_resid_norm = 0
    /\ linear_resid_norm_ = 0
    /\ ls_print_help = 0
    /\ ls_rhs_in = << >>
    /\ ls_x_in = << >>
    /\ ls_lin = << >>
    /\ ls_bt = << >>
    /\ ls_steps = 0

\* no graph being distributed (the other specifications)
GrIdle ==
    /\ gr_step = "off"
    /\ gr_proc = 0
    /\ num_procs = 0
    /\ vert_edge_global = << >>
    /\ partition = << >>
    /\ edge_weight_global = << >>
    /\ vert_loc_to_glo_ = << >>
    /\ edge_loc_to_glo_ = << >>
    /\ vertex_edge_local_ = << >>
    /\ edge_trueedge_ = << >>
    /\ edge_weight_local = << >>
    /\ edge_weight_split_ = << >>
    /\ gr_D = << >>
    /\ gr_asserts = << >>

\* no parallel solve (the other specifications)
ParIdle ==
    /\ par_pc = << >>
    /\ par_cont = << >>
    /\ par_op = << >>
    /\ par_dest = << >>
    /\ par_part = << >>
    /\ par_val = << >>
    /\ par_iter = << >>
    /\ par_converged = << >>
    /\ par_level = << >>
    /\ par_stage = << >>
    /\ par_k = << >>
    /\ par_count = << >>

InitFAS ==
    /\ alpha \in AlphaChoices
    /\ num_levels_ \in 1..MaxLevels
    /\ cycle_ \in CycleKinds
    /\ max_num_iter_ \in 0..MaxIter
    /\ tol_ \in TolChoices
    /\ relax_ \in RelaxKinds
    /\ FASConstructed
    /\ BTIdle
    /\ UpIdle
    /\ CoIdle
    /\ LSIdle
    /\ GrIdle
    /\ ParIdle

StepFAS ==
    \/ \E a \in AlphaChoices : MainSetAlpha(a)
    \/ \E rhs \in RhsChoices, sol \in SolGuesses : Solve_Begin(rhs, sol)
    \/ Solve_Iterate
    \/ Solve_LoopExit
    \/ Solve_Return
    \/ FAS_CoarsestSolve
    \/ FAS_PreSmooth
    \/ FAS_NoPreSmooth
    \/ FAS_Residual
    \/ FAS_Restrict
    \/ FAS_Project
    \/ FAS_CoarseRhs
    \/ FAS_Store
    \/ FAS_Recurse
    \/ FAS_Correct
    \/ FAS_Interpolate
    \/ FAS_Update
    \/ FAS_PostSmooth
    \/ FAS_Return

NextFAS ==
    StepFAS /\ UNCHANGED << btvars, upvars, covars, lsvars, grvars, parvars >>

SpecFAS == InitFAS /\ [][NextFAS]_vars

\* ------------------------------------ LevelSolver::BackTracking ----
\* One call BackTracking(rhs, prev_resid_norm, x, dx, interlopate) of a level
\* with one flux and two pressure unknowns.  x and dx are integer vectors;
\* the entries of dx are multiples of a unit that keeps the clamp's division
\* and max_num_backtrack_ halvings exact.  The residual norm of an iterate
\* is an arbitrary function of the iterate, drawn when first evaluated.
BTOffsets == << 0, 1, 3 >>

BTUnit == 2 ^ (MaxBacktrack + 2)

ResidVals == {0, 4, 9, 10, 11, 12}

BTAlphaChoices == {-1, 0, 1, 2}

\* log(diff_tol_) for diff_tol_ > 1 and for 0 < diff_tol_ < 1
LogTolChoices == {BTUnit, -BTUnit}

DxChoices == { << BTUnit, BTUnit, 0 >>,
               << 0, 2 * BTUnit, -BTUnit >>,
               << BTUnit, -BTUnit, 2 * BTUnit >> }

Abs(n) == IF n < 0 THEN -n ELSE n

VecAdd(a, b) == [i \in 1..Len(a) |-> a[i] + b[i]]

\* variant: the step is quartered
Halve_Quarter(v) == [i \in 1..Len(v) |-> v[i] \div 4]

\* dx *= 0.5
Halve(v) == [i \in 1..Len(v) |-> v[i] \div 2]

\* variant: the stalled trial is kept
UndoHalving_Keep(x, dx) == x

\* x -= dx; break;
UndoHalving(x, dx) == VecSub(x, dx)

\* AbsMax of the pressure block of dx (PWConstProject is the identity on
\* a level whose aggregates are its vertices)
AbsMaxPressure(dx) ==
    LET m(i) == Abs(dx[BTOffsets[2] + i])
    IN  IF m(1) >= m(2) THEN m(1) ELSE m(2)

\* relative_change = max_pressure_change * alpha / log(diff_tol_) > 1
RelativeChangeAboveOne(dx) ==
    \/ log_diff_tol_ > 0 /\ AbsMaxPressure(dx) * alpha > log_diff_tol_
    \/ log_diff_tol_ < 0 /\ AbsMaxPressure(dx) * alpha < log_diff_tol_

\* dx /= relative_change
Clamped(dx) ==
    [i \in 1..Len(dx) |->
        (dx[i] * log_diff_tol_) \div (AbsMaxPressure(dx) * alpha)]

\* ResidualNorm(x, rhs) may return r
NormOf(x, r) == x \in DOMAIN bt_land => r = bt_land[x]

Evaluated(x, r) ==
    [y \in DOMAIN bt_land \cup {x} |-> IF y = x THEN r ELSE bt_land[y]]

\* variant: one halving fewer
BT_LoopCond_OneLess(k, resid, prev) ==
    k + 1 < max_num_backtrack_ /\ resid > prev

\* while (k < max_num_backtrack_ && resid_norm_ > prev_resid_norm)
BT_LoopCond(k, resid, prev) == k < max_num_backtrack_ /\ resid > prev

\* if (resid_norm_ > 0.9 * backtracking_resid_norm)
BT_Stalls(resid, before) == 10 * resid > 9 * before

btcfg == << alpha, bt_interlopate, max_num_backtrack_, log_diff_tol_,
            bt_prev, bt_x0, bt_dx0 >>

\* the caller (PicardStep, NewtonStep) has set x -= dx and calls
BT_Call(prev, dx) ==
    /\ bt_pc = "idle"
    /\ bt_prev' = prev
    /\ bt_dx' = dx
    /\ bt_dx0' = dx
    /\ bt_x' = VecSub(bt_x0, dx)
    /\ bt_k' = 0
    /\ bt_pc' = "clamp"
    /\ UNCHANGED << alpha, bt_interlopate, max_num_backtrack_, log_diff_tol_,
                    bt_x0, resid_norm_, print_help, bt_land, bt_stalled >>

\* print_help++; if (!interlopate) { ... if (relative_change > 1)
\* { dx /= relative_change; x.Add(relative_change - 1.0, dx); } }
BT_Clamp ==
    /\ bt_pc = "clamp"
    /\ IF ~bt_interlopate /\ RelativeChangeAboveOne(bt_dx)
       THEN /\ bt_dx' = Clamped(bt_dx)
            /\ bt_x' = VecSub(VecAdd(bt_x, bt_dx), Clamped(bt_dx))
       ELSE UNCHANGED << bt_dx, bt_x >>
    /\ print_help' = print_help + 1
    /\ bt_pc' = "norm"
    /\ UNCHANGED << btcfg, bt_k, resid_norm_, bt_land, bt_stalled >>

\* if (max_num_backtrack_ > 0) resid_norm_ = ResidualNorm(x, rhs);
BT_FirstNorm(r) ==
    /\ bt_pc = "norm"
    /\ IF max_num_backtrack_ > 0
       THEN /\ NormOf(bt_x, r)
            /\ resid_norm_' = r
            /\ bt_land' = Evaluated(bt_x, r)
       ELSE /\ r = resid_norm_
            /\ UNCHANGED << resid_norm_, bt_land >>
    /\ bt_pc' = "loop"
    /\ UNCHANGED << btcfg, bt_x, bt_dx, bt_k, print_help, bt_stalled >>

\* one pass of the loop body: dx *= 0.5; x += dx; resid_norm_ = ...;
\* if it stalls { x -= dx; break; }  k++
BT_Halve(r) ==
    /\ bt_pc = "loop"
    /\ BT_LoopCond(bt_k, resid_norm_, bt_prev)
    /\ LET half == Halve(bt_dx)
           trial == VecAdd(bt_x, half)
       IN  /\ NormOf(trial, r)
           /\ bt_dx' = half
           /\ resid_norm_' = r
           /\ bt_land' = Evaluated(trial, r)
           /\ IF BT_Stalls(r, resid_norm_)
              THEN /\ bt_x' = UndoHalving(trial, half)
                   /\ bt_stalled' = TRUE
                   /\ bt_pc' = "done"
                   /\ UNCHANGED bt_k
              ELSE /\ bt_x' = trial
                   /\ bt_k' = bt_k + 1
                   /\ UNCHANGED << bt_stalled, bt_pc >>
    /\ UNCHANGED << btcfg, print_help >>

\* the loop condition fails: return
BT_LoopExit ==
    /\ bt_pc = "loop"
    /\ ~BT_LoopCond(bt_k, resid_norm_, bt_prev)
    /\ bt_pc' = "done"
    /\ UNCHANGED << btcfg, bt_x, bt_dx, bt_k, resid_norm_, print_help,
                    bt_land, bt_stalled >>

InitBT ==
    /\ alpha \in BTAlphaChoices
    /\ FASIdle
    /\ bt_pc = "idle"
    /\ bt_interlopate \in BOOLEAN
    /\ max_num_backtrack_ \in 0..MaxBacktrack
    /\ log_diff_tol_ \in LogTolChoices
    /\ bt_x0 = << 0, 0, 0 >>
    /\ bt_x = bt_x0
    /\ bt_dx = << 0, 0, 0 >>
    /\ bt_dx0 = << 0, 0, 0 >>
    /\ bt_k = 0
    /\ resid_norm_ \in ResidVals
    /\ bt_prev = 0
    /\ print_help = 0
    /\ bt_land = << >>
    /\ bt_stalled = FALSE
    /\ UpIdle
    /\ CoIdle
    /\ LSIdle
    /\ GrIdle
    /\ ParIdle

StepBT ==
    \/ \E prev \in ResidVals, dx \in DxChoices : BT_Call(prev, dx)
    \/ BT_Clamp
    \/ \E r \in ResidVals : BT_FirstNorm(r)
    \/ \E r \in ResidVals : BT_Halve(r)
    \/ BT_LoopExit

NextBT ==
    StepBT /\ UNCHANGED << fasrest, upvars, covars, lsvars, grvars, parvars >>

SpecBT == InitBT /\ [][NextBT]_vars


\* ------------------------------------------------ Upscale objects ----
\* FiniteVolumeMLMC in its two definitions ("MLMC_A": the one with
\* fine_solver_/coarse_solver_, "MLMC_B": the one with solver_[] and param_)
\* and GraphUpscale.  A level has two edge dofs; level 0 has two vertices
\* (its aggregates), a coarser level one aggregate.  M is diagonal and kept
\* as its diagonal; D is kept as the flags of its columns and of its row 0.
UpClasses == {"MLMC_A", "MLMC_B", "GraphUpscale"}

UpLevels == 0 .. (max_levels_ - 1)

CoefVals == {1, 2}

\* element matrices stored by the builder: aggregate -> diagonal
UpMel(level) ==
    IF level = 0 THEN << << 1, 0 >>, << 1, 1 >> >> ELSE << << 2, 1 >> >>

NumAggs(level) == Len(UpMel(level))

Ones(level) == [a \in 1..NumAggs(level) |-> 1]

CoefVecs(level) == [1..NumAggs(level) -> CoefVals]

\* marker of the essential edge dofs: MarkDofsOnBoundary / BooleanMult
UpMarker(level) ==
    IF ~ess_attr_ THEN << 0, 0 >>
    ELSE IF level = 0 THEN << 0, 1 >> ELSE << 1, 0 >>

RECURSIVE AggSum(_, _, _, _)
AggSum(level, w, e, a) ==
    IF a = 0 THEN 0
    ELSE w[a] * UpMel(level)[a][e] + AggSum(level, w, e, a - 1)

\* MBuilder::BuildAssembledM(agg_weights_inverse)
BuildAssembledM(level, w) ==
    [e \in 1..2 |-> AggSum(level, w, e, NumAggs(level))]

\* a vector read past its end yields whatever is there
ReadAs(level, coeff, junk) ==
    [a \in 1..NumAggs(level) |-> IF a <= Len(coeff) THEN coeff[a] ELSE junk]

\* Mref.EliminateRow(mm, true) for every marked mm
EliminateRows(M, marker) ==
    [e \in 1..Len(M) |-> IF marker[e] = 1 THEN 1 ELSE M[e]]

\* Dref.EliminateCols(marker)
EliminateCols(D, marker) ==
    [D EXCEPT !.cols = [e \in 1..2 |-> IF marker[e] = 1 THEN 0 ELSE @[e]]]

FullD == [cols |-> << 1, 1 >>, row0 |-> 1]

Lv(level) == level + 1

\* SpectralAMG_MGL_Coarsener: the coarse builder
CoarseBuilder(coefficient_form) ==
    IF coefficient_form THEN "CoefficientMBuilder" ELSE "ElementMBuilder"

\* MixedMatrix::BuildM(): assemble M with unit coefficient if absent
BuildM(level, M) == IF M = << >> THEN BuildAssembledM(level, Ones(level)) ELSE M

upcfg == << up_class, hybridization_, coarse_components_, ess_attr_,
            max_levels_ >>

\* FiniteVolumeMLMC::FiniteVolumeMLMC up to the call of MakeCoarseSolver
FVMLMC_Construct ==
    /\ up_class \in {"MLMC_A", "MLMC_B"}
    /\ up_pc = "ctor"
    /\ mbuilder_' = << "ElementMBuilder",
                       IF up_class = "MLMC_A"
                       THEN CoarseBuilder(~hybridization_)
                       ELSE CoarseBuilder(coarse_components_) >>
    /\ M_' = << BuildAssembledM(0, Ones(0)),
                IF up_class = "MLMC_A" THEN BuildAssembledM(1, Ones(1))
                ELSE << >> >>
    /\ D_' = << FullD, FullD >>
    /\ solver_' = << "none", "none" >>
    /\ agg_scaling_' = << << >>, << >> >>
    /\ up_pc' = "coarse_solver"
    /\ UNCHANGED << upcfg, up_level, rescales >>

\* variant: no assertion
CoarseHybridRejected_Never == FALSE

\* assert(!param_.coarse_components) of the second definition
CoarseHybridRejected == up_class = "MLMC_B" /\ coarse_components_

\* FiniteVolumeMLMC::MakeCoarseSolver() applied to coarse matrix M
MakeCoarseSolver(M, next_pc) ==
    IF hybridization_
    THEN IF CoarseHybridRejected
         THEN /\ up_pc' = "aborted"
              /\ M_' = [M_ EXCEPT ![Lv(1)] = M]
              /\ UNCHANGED << D_, solver_, agg_scaling_ >>
         ELSE /\ solver_' = [solver_ EXCEPT ![Lv(1)] = "HybridSolver"]
              /\ agg_scaling_' = [agg_scaling_ EXCEPT ![Lv(1)] = Ones(1)]
              /\ M_' = [M_ EXCEPT ![Lv(1)] = M]
              /\ up_pc' = next_pc
              /\ UNCHANGED D_
    ELSE /\ M_' = [M_ EXCEPT ![Lv(1)] =
                      EliminateRows(BuildM(1, M), UpMarker(1))]
         /\ D_' = [D_ EXCEPT ![Lv(1)] = EliminateCols(@, UpMarker(1))]
         /\ solver_' = [solver_ EXCEPT ![Lv(1)] = "MinresBlockSolverFalse"]
         /\ up_pc' = next_pc
         /\ UNCHANGED agg_scaling_

\* the constructor's call MakeCoarseSolver(); MakeCoarseVectors()
FVMLMC_ConstructCoarseSolver ==
    /\ up_class \in {"MLMC_A", "MLMC_B"}
    /\ up_pc = "coarse_solver"
    /\ MakeCoarseSolver(M_[Lv(1)], "ready")
    /\ UNCHANGED << upcfg, mbuilder_, up_level, rescales >>

\* FiniteVolumeMLMC::ForceMakeFineSolver() applied to fine matrix M
ForceMakeFineSolver(M) ==
    IF hybridization_
    THEN /\ solver_' = [solver_ EXCEPT ![Lv(0)] = "HybridSolver"]
         /\ agg_scaling_' = [agg_scaling_ EXCEPT ![Lv(0)] = Ones(0)]
         /\ M_' = [M_ EXCEPT ![Lv(0)] = M]
         /\ UNCHANGED D_
    ELSE /\ M_' = [M_ EXCEPT ![Lv(0)] = EliminateRows(M, UpMarker(0))]
         /\ D_' = [D_ EXCEPT ![Lv(0)] =
                      [EliminateCols(@, UpMarker(0)) EXCEPT !.row0 = 0]]
         /\ solver_' = [solver_ EXCEPT ![Lv(0)] = "MinresBlockSolverFalse"]
         /\ UNCHANGED agg_scaling_

\* FiniteVolumeMLMC::MakeFineSolver()
FVMLMC_MakeFineSolver ==
    /\ up_class \in {"MLMC_A", "MLMC_B"}
    /\ up_pc = "ready"
    /\ solver_[Lv(0)] = "none"
    /\ ForceMakeFineSolver(M_[Lv(0)])
    /\ UNCHANGED << upcfg, mbuilder_, up_pc, up_level, rescales >>

\* FiniteVolumeMLMC::RescaleFineCoefficient(coeff)
RescaleFineCoefficient(coeff) ==
    /\ up_class \in {"MLMC_A", "MLMC_B"}
    /\ up_pc = "ready"
    /\ rescales < MaxRescale
    /\ rescales' = rescales + 1
    /\ IF ~hybridization_
       THEN /\ ForceMakeFineSolver(BuildAssembledM(0, coeff))
            /\ UNCHANGED up_pc
       ELSE /\ M_' = IF up_class = "MLMC_B"
                     THEN [M_ EXCEPT ![Lv(0)] = BuildAssembledM(0, coeff)]
                     ELSE M_
            /\ IF solver_[Lv(0)] = "HybridSolver"
               THEN /\ agg_scaling_' = [agg_scaling_ EXCEPT ![Lv(0)] = coeff]
                    /\ UNCHANGED up_pc
               ELSE /\ up_pc' = "aborted"
                    /\ UNCHANGED agg_scaling_
            /\ UNCHANGED << D_, solver_ >>
    /\ UNCHANGED << upcfg, mbuilder_, up_level >>

\* FiniteVolumeMLMC::RescaleCoarseCoefficient(coeff)
RescaleCoarseCoefficient(coeff, junk) ==
    /\ up_class \in {"MLMC_A", "MLMC_B"}
    /\ up_pc = "ready"
    /\ rescales < MaxRescale
    /\ rescales' = rescales + 1
    /\ IF ~hybridization_
       THEN IF up_class = "MLMC_A"
            THEN \* GetFineMatrix().UpdateM(coeff); MakeCoarseSolver();
                 /\ M_' = [M_ EXCEPT
                       ![Lv(0)] = BuildAssembledM(0, ReadAs(0, coeff, junk)),
                       ![Lv(1)] = EliminateRows(@, UpMarker(1))]
                 /\ D_' = [D_ EXCEPT ![Lv(1)] = EliminateCols(@, UpMarker(1))]
                 /\ solver_' = [solver_ EXCEPT
                                  ![Lv(1)] = "MinresBlockSolverFalse"]
                 /\ UNCHANGED << agg_scaling_, up_pc >>
            ELSE \* GetCoarseMatrix().UpdateM(coeff); MakeCoarseSolver();
                 MakeCoarseSolver(BuildAssembledM(1, coeff), "ready")
       ELSE /\ junk = 1
            /\ agg_scaling_' = [agg_scaling_ EXCEPT ![Lv(1)] = coeff]
            /\ UNCHANGED << M_, D_, solver_, up_pc >>
    /\ UNCHANGED << upcfg, mbuilder_, up_level >>

\* GraphUpscale::Init up to the call of MakeFineSolver
GraphUpscale_InitMatrices ==
    /\ up_class = "GraphUpscale"
    /\ up_pc = "ctor"
    /\ mbuilder_' = [l \in 1..max_levels_ |->
                        IF l = Lv(0) THEN "ElementMBuilder"
                        ELSE CoarseBuilder(coarse_components_)]
    /\ M_' = [l \in 1..max_levels_ |->
                 IF l = Lv(0) THEN BuildAssembledM(0, Ones(0))
                 ELSE IF ~hybridization_ THEN BuildM(l - 1, << >>)
                 ELSE << >>]
    /\ D_' = [l \in 1..max_levels_ |-> FullD]
    /\ solver_' = [l \in 1..max_levels_ |-> "none"]
    /\ agg_scaling_' = [l \in 1..max_levels_ |-> << >>]
    /\ up_pc' = "fine_solver"
    /\ UNCHANGED << upcfg, up_level, rescales >>

\* GraphUpscale::MakeFineSolver(), called by Init
GraphUpscale_MakeFineSolver ==
    /\ up_class = "GraphUpscale"
    /\ up_pc = "fine_solver"
    /\ IF solver_[Lv(0)] = "none"
       THEN IF hybridization_
            THEN /\ solver_' = [solver_ EXCEPT ![Lv(0)] = "HybridSolver"]
                 /\ agg_scaling_' = [agg_scaling_ EXCEPT ![Lv(0)] = Ones(0)]
            ELSE /\ solver_' = [solver_ EXCEPT
                                  ![Lv(0)] = "MinresBlockSolverFalse"]
                 /\ UNCHANGED agg_scaling_
       ELSE UNCHANGED << solver_, agg_scaling_ >>
    /\ up_level' = 1
    /\ up_pc' = "coarse_loop"
    /\ UNCHANGED << upcfg, mbuilder_, M_, D_, rescales >>

\* one pass of Init's loop over the coarser levels
GraphUpscale_InitCoarseSolver ==
    /\ up_class = "GraphUpscale"
    /\ up_pc = "coarse_loop"
    /\ up_level < max_levels_
    /\ IF hybridization_
       THEN IF coarse_components_
            THEN /\ up_pc' = "aborted"
                 /\ UNCHANGED << solver_, agg_scaling_, up_level >>
            ELSE /\ solver_' = [solver_ EXCEPT
                                  ![Lv(up_level)] = "HybridSolver"]
                 /\ agg_scaling_' = [agg_scaling_ EXCEPT
                                       ![Lv(up_level)] = Ones(up_level)]
                 /\ up_level' = up_level + 1
                 /\ UNCHANGED up_pc
       ELSE /\ solver_' = [solver_ EXCEPT
                             ![Lv(up_level)] = "MinresBlockSolverFalse"]
            /\ up_level' = up_level + 1
            /\ UNCHANGED << agg_scaling_, up_pc >>
    /\ UNCHANGED << upcfg, mbuilder_, M_, D_, rescales >>

\* the loop over the coarser levels ends
GraphUpscale_InitDone ==
    /\ up_class = "GraphUpscale"
    /\ up_pc = "coarse_loop"
    /\ ~(up_level < max_levels_)
    /\ up_pc' = "ready"
    /\ UNCHANGED << upcfg, mbuilder_, M_, D_, solver_, agg_scaling_,
                    up_level, rescales >>

InitUp ==
    /\ alpha \in {1}
    /\ FASIdle
    /\ BTIdle
    /\ up_class \in UpClasses
    /\ hybridization_ \in BOOLEAN
    /\ coarse_components_ \in
          (IF up_class = "MLMC_A" THEN {~hybridization_} ELSE BOOLEAN)
    /\ ess_attr_ \in BOOLEAN
    /\ max_levels_ \in (IF up_class = "GraphUpscale" THEN 1..MaxUpLevels
                        ELSE {2})
    /\ mbuilder_ = << >>
    /\ M_ = << >>
    /\ D_ = << >>
    /\ solver_ = << >>
    /\ agg_scaling_ = << >>
    /\ up_pc = "ctor"
    /\ up_level = 0
    /\ rescales = 0
    /\ CoIdle
    /\ LSIdle
    /\ GrIdle
    /\ ParIdle

StepUp ==
    \/ FVMLMC_Construct
    \/ FVMLMC_ConstructCoarseSolver
    \/ FVMLMC_MakeFineSolver
    \/ \E coeff \in CoefVecs(0) : RescaleFineCoefficient(coeff)
    \/ \E coeff \in CoefVecs(1), junk \in CoefVals :
          RescaleCoarseCoefficient(coeff, junk)
    \/ GraphUpscale_InitMatrices
    \/ GraphUpscale_MakeFineSolver
    \/ GraphUpscale_InitCoarseSolver
    \/ GraphUpscale_InitDone

NextUp ==
    StepUp /\ UNCHANGED << fasvars, btvars, covars, lsvars, grvars, parvars >>

SpecUp == InitUp /\ [][NextUp]_vars


\* ------------------------------------ SpectralAMG_MGL_Coarsener ----
\* do_construct_coarse_subspace for one level pair.  The local spectral
\* targets: an aggregate of k vertices has k local eigenpairs with the
\* eigenvalues 0, 1, ..., k - 1 (the first is the constant); the vertex
\* targets kept are those with eigenvalue below spect_tol, at most
\* max_evects of them, and always the constant.  The transfer operators of
\* the pair are those of the hierarchy above (fine level with co_n vertices).
MaxAggSize == 3

AggSizes == 1..MaxAggSize

AggregationChoices ==
    {<< a >> : a \in AggSizes} \cup {<< a, b >> : a, b \in AggSizes}

SpectTolChoices == 0..MaxAggSize

MaxEvectsChoices == 1..MaxAggSize

FluxVals == {-1, 0, 1}

Min(a, b) == IF a <= b THEN a ELSE b

\* eigenvalues of the aggregate below the tolerance
NumBelowTol(size, tol) == Cardinality({k \in 0..(size - 1) : k < tol})

\* variant: the constant is not kept when its eigenvalue is not below tol
NumVertexTargets_NoConstant(size, tol, maxev) ==
    Min(NumBelowTol(size, tol), maxev)

\* LocalMixedGraphSpectralTargets::Compute: vertex targets of one aggregate
NumVertexTargets(size, tol, maxev) ==
    LET kept == Min(NumBelowTol(size, tol), maxev)
    IN  IF kept < 1 THEN 1 ELSE kept

RECURSIVE SeqSum(_, _)
SeqSum(q, k) == IF k = 0 THEN 0 ELSE q[k] + SeqSum(q, k - 1)

\* pressure dofs of the fine and of the coarse level
NumFineVertices == SeqSum(co_aggs, Len(co_aggs))

NumCoarseVertexDofs == SeqSum(co_targets, Len(co_targets))

cocfg == << co_n, co_aggs, spect_tol, max_evects >>

\* localtargets.Compute(...); BuildCoarseGraphSpace(...)
Co_ComputeTargets ==
    /\ co_pc = "targets"
    /\ co_targets' = [a \in 1..Len(co_aggs) |->
                         NumVertexTargets(co_aggs[a], spect_tol, max_evects)]
    /\ co_pc' = "built"
    /\ UNCHANGED << cocfg, co_x, co_div, co_div_restricted,
                    co_restricted_div >>

\* a fine flux vector x and its divergence D x
Co_FineDivergence(x) ==
    /\ co_pc = "built"
    /\ co_x' = x
    /\ co_div' = Div(co_n, x)
    /\ co_pc' = "fine_div"
    /\ UNCHANGED << cocfg, co_targets, co_div_restricted, co_restricted_div >>

\* Pu^T (D x) and coarse_D_ (Psigma^T x), coarse_D_ = GetCoarseD()
Co_Restrict ==
    /\ co_pc = "fine_div"
    /\ co_div_restricted' = RestrictBlock(co_n, co_div)
    /\ co_restricted_div' = Div(co_n - 1, RestrictSigma(co_n, co_x))
    /\ co_pc' = "done"
    /\ UNCHANGED << cocfg, co_targets, co_x, co_div >>

InitCo ==
    /\ alpha \in {1}
    /\ FASIdle
    /\ BTIdle
    /\ UpIdle
    /\ co_pc = "targets"
    /\ co_n \in 2..MaxLevels
    /\ co_aggs \in AggregationChoices
    /\ spect_tol \in SpectTolChoices
    /\ max_evects \in MaxEvectsChoices
    /\ co_targets = << >>
    /\ co_x = << >>
    /\ co_div = << >>
    /\ co_div_restricted = << >>
    /\ co_restricted_div = << >>
    /\ LSIdle
    /\ GrIdle
    /\ ParIdle

StepCo ==
    \/ Co_ComputeTargets
    \/ \E x \in [1..co_n -> FluxVals] : Co_FineDivergence(x)
    \/ Co_Restrict

NextCo ==
    StepCo /\ UNCHANGED << fasvars, btvars, upvars, lsvars, grvars, parvars >>

SpecCo == InitCo /\ [][NextCo]_vars


\* ------------------------------------ LevelSolver::IterationStep ----
\* One LevelSolver of a two-level hierarchy (level 0: two vertices, level 1:
\* one) and its Picard / Newton steps.  Norms are kept squared.  The linear
\* solver of the level (Hierarchy::Solve) works on the matrix that the last
\* RescaleCoefficient / UpdateJacobian call left in the hierarchy (ls_coef).
LSVals == {-2, 0, 2}

\* the vectors the linear solver of a level can return: constant on the flux
\* block and on the pressure block
LSVectors(level) ==
    {[i \in 1..LevelSize(level) |-> IF i <= NumVertices(level) THEN a ELSE b] :
        a \in LSVals, b \in LSVals}

LSGuesses(level) ==
    {ConstVec(LevelSize(level), 0), ConstVec(LevelSize(level), 2),
     [i \in 1..LevelSize(level) |-> IF i <= NumVertices(level) THEN 2 ELSE 0]}

LSRhsChoices(level) ==
    {LevelMult(level, s) : s \in LSGuesses(level)}
    \cup {[i \in 1..LevelSize(level) |->
             IF i <= NumVertices(level) THEN 0 ELSE ExpScale]}

\* MixedMatrix::GetEssDofs(): marker over the flux dofs
EssMarkers(level) == [1..NumVertices(level) -> {0, 1}]

ZeroMat(n) == [i \in 1..n |-> ZeroVec(n)]

\* dKinv_dp(p): -(alpha exp(alpha p)) / exp(alpha p)^2, fixed point
DKinv_dp(p) == [i \in 1..Len(p) |-> 0 - alpha * KInv(Exp(alpha * p[i]))]

\* Build_dMdp(iterate): dMdp_[i] = (M_el[i] sigma_loc) (proj_pwc_loc
\* dkinv_dp_[i]); vertex i has the edges i - 1 and i, M_el[i] is the
\* identity on them
Build_dMdp(level, iterate, dkinv_dp) ==
    LET n == NumVertices(level)
        sg == Block0(level, iterate)
    IN  [i \in 1..n |->
            [e \in 1..n |-> IF e = i \/ e = i - 1
                            THEN sg[e] * dkinv_dp[i] ELSE 0]]

RECURSIVE DMdpRow(_, _, _, _)
DMdpRow(dMdp, u, e, i) ==
    IF i = 0 THEN 0 ELSE dMdp[i][e] * u[i] + DMdpRow(dMdp, u, e, i - 1)

\* the matrix of the level after UpdateJacobian(level, kp, dMdp) applied to
\* c: [[M(kp), D^T + dMdp], [D, 0]] c  (dMdp = 0 after RescaleCoefficient)
JacobianMult(level, coef, c) ==
    LET n == NumVertices(level)
        base == MixedMult(level, coef.kp, c)
        u == Block1(level, c)
    IN  [i \in 1..(2 * n) |->
            IF i <= n THEN base[i] + DMdpRow(coef.dMdp, u, i, n)
            ELSE base[i]]

\* Hierarchy::Solve(level, rhs, x): the linear solver of the level; of the
\* vectors it can represent it returns one of least linear residual and
\* keeps its initial guess when that is one
LinearSolve(level, coef, rhs, guess) ==
    LET cands == LSVectors(level) \cup {guess}
        rs(c) == NormSq(VecSub(JacobianMult(level, coef, c), rhs))
        best == CHOOSE m \in {rs(c) : c \in cands} :
                    \A d \in cands : m <= rs(d)
    IN  IF rs(guess) = best THEN guess
        ELSE CHOOSE c \in cands : rs(c) = best

\* variant: the residual is what the linear solver is given
PicardRhs_Residual(rhs, resid) == resid

\* hierarchy_.Solve(level_, rhs, x): the right-hand side of the Picard solve
PicardRhs(rhs, resid) == rhs

\* variant: every flux entry is zeroed
ZeroEssential_AllFlux(level, r, ess) ==
    [i \in 1..Len(r) |-> IF i <= NumVertices(level) THEN 0 ELSE r[i]]

\* for (i < x.BlockSize(0)) if (GetEssDofs()[i]) residual_[i] = 0.0;
ZeroEssential(level, r, ess) ==
    [i \in 1..Len(r) |->
        IF i <= NumVertices(level) /\ ess[i] # 0 THEN 0 ELSE r[i]]

LSAbsMax(v) ==
    LET S == {Abs(v[i]) : i \in 1..Len(v)}
    IN  CHOOSE m \in S : \A k \in S : k <= m

LSMaxPressureChange(level, dx) ==
    LSAbsMax(PWConstProject(level, Block1(level, dx)))

\* relative_change = max_pressure_change * alpha / log(diff_tol_) > 1
LSRelativeChangeAboveOne(level, dx) ==
    LET m == LSMaxPressureChange(level, dx)
    IN  \/ ls_log_diff_tol > 0 /\ m * alpha > ls_log_diff_tol
        \/ ls_log_diff_tol < 0 /\ m * alpha < ls_log_diff_tol

\* dx /= relative_change
LSClamped(level, dx) ==
    [i \in 1..Len(dx) |->
        (dx[i] * ls_log_diff_tol)
            \div (LSMaxPressureChange(level, dx) * alpha)]

\* the while loop of BackTracking on st = [x, dx, k, resid, last]; last is
\* the last vector ResidualNorm was called with (<< >>: none)
RECURSIVE LSHalving(_, _, _, _)
LSHalving(level, rhs, prev, st) ==
    IF st.k < ls_max_num_backtrack /\ st.resid > prev
    THEN LET half == Halve(st.dx)
             trial == VecAdd(st.x, half)
             r == ResidualNormSq(level, trial, rhs)
         IN  IF 100 * r > 81 * st.resid
             THEN [x |-> VecSub(trial, half), dx |-> half, k |-> st.k,
                   resid |-> r, last |-> trial]
             ELSE LSHalving(level, rhs, prev,
                            [x |-> trial, dx |-> half, k |-> st.k + 1,
                             resid |-> r, last |-> trial])
    ELSE st

\* BackTracking(rhs, prev_resid_norm, x, dx) with interlopate = false
LSBackTracking(level, rhs, prev, x, dx) ==
    LET clamp == LSRelativeChangeAboveOne(level, dx)
        dx1 == IF clamp THEN LSClamped(level, dx) ELSE dx
        x1 == IF clamp THEN VecSub(VecAdd(x, dx), dx1) ELSE x
        st == IF ls_max_num_backtrack > 0
              THEN [x |-> x1, dx |-> dx1, k |-> 0,
                    resid |-> ResidualNormSq(level, x1, rhs), last |-> x1]
              ELSE [x |-> x1, dx |-> dx1, k |-> 0,
                    resid |-> ls_resid_norm, last |-> << >>]
    IN  LSHalving(level, rhs, prev, st)

lscfg == << alpha, level_, solve_type_, taylor_, ess_dofs_,
            ls_max_num_backtrack, ls_log_diff_tol, ls_rhs >>

\* LevelSolver::PicardStep up to the call of BackTracking
LS_PicardStep ==
    /\ ls_pc = "idle"
    /\ solve_type_ = "Picard"
    /\ ls_steps < MaxSteps
    /\ LET x == ls_x
           ev == EvalCoef(level_, x)
           resid == VecSub(MixedMult(level_, ev.kp, x), ls_rhs)
           coef == [kp |-> ev.kp, dMdp |-> ZeroMat(NumVertices(level_))]
           b == PicardRhs(ls_rhs, resid)
           out == LinearSolve(level_, coef, b, x)
       IN  /\ prev_resid_norm_' = NormSq(resid)
           /\ ls_residual' = resid
           /\ ls_p' = ev.p
           /\ ls_kp' = ev.kp
           /\ ls_coef' = coef
           /\ ls_x' = out
           /\ ls_delta_x' = VecSub(x, out)
           /\ ls_lin' = [coef |-> coef, rhs |-> b, guess |-> x, out |-> out]
           /\ ls_x_in' = x
           /\ ls_rhs_in' = ls_rhs
    /\ ls_pc' = "backtracking"
    /\ ls_steps' = ls_steps + 1
    /\ UNCHANGED << lscfg, ls_dMdp, ls_resid_norm, linear_resid_norm_,
                    ls_print_help, ls_bt >>

\* LevelSolver::NewtonStep up to the call of BackTracking
LS_NewtonStep ==
    /\ ls_pc = "idle"
    /\ solve_type_ = "Newton"
    /\ ls_steps < MaxSteps
    /\ LET x == ls_x
           ev == EvalCoef(level_, x)
           r == ZeroEssential(level_,
                              VecSub(MixedMult(level_, ev.kp, x), ls_rhs),
                              ess_dofs_)
           dMdp == Build_dMdp(level_, x, DKinv_dp(ev.p))
           coef == [kp |-> ev.kp, dMdp |-> dMdp]
           dx == LinearSolve(level_, coef, r, ZeroVec(LevelSize(level_)))
       IN  /\ ls_residual' = r
           /\ ls_p' = ev.p
           /\ ls_kp' = ev.kp
           /\ ls_dMdp' = dMdp
           /\ ls_coef' = coef
           /\ prev_resid_norm_' = NormSq(r)
           /\ ls_x' = VecSub(x, dx)
           /\ ls_delta_x' = dx
           /\ ls_lin' = [coef |-> coef, rhs |-> r,
                         guess |-> ZeroVec(LevelSize(level_)), out |-> dx]
           /\ ls_x_in' = x
           /\ ls_rhs_in' = ls_rhs
    /\ ls_pc' = "backtracking"
    /\ ls_steps' = ls_steps + 1
    /\ UNCHANGED << lscfg, ls_resid_norm, linear_resid_norm_,
                    ls_print_help, ls_bt >>

\* BackTracking(rhs, prev_resid_norm_, x, delta_x) and the rest of the step:
\* if (linear_tol_criterion_ == TaylorResidual) linear_resid_norm_ = ...
LS_BackTracking ==
    /\ ls_pc = "backtracking"
    /\ LET out == LSBackTracking(level_, ls_rhs, prev_resid_norm_,
                                 ls_x, ls_delta_x)
           ran == out.last # << >>
           ev == EvalCoef(level_, out.last)
           kp == IF ran THEN ev.kp ELSE ls_kp
           res == IF ran
                  THEN VecSub(MixedMult(level_, ev.kp, out.last), ls_rhs)
                  ELSE ls_residual
           lin == [kp |-> kp,
                   dMdp |-> IF solve_type_ = "Newton" THEN ls_dMdp
                            ELSE ZeroMat(NumVertices(level_))]
       IN  /\ ls_bt' = [prev |-> prev_resid_norm_, x |-> ls_x,
                        dx |-> ls_delta_x, k |-> out.k]
           /\ ls_x' = out.x
           /\ ls_delta_x' = out.dx
           /\ ls_resid_norm' = out.resid
           /\ ls_kp' = kp
           /\ ls_p' = IF ran THEN ev.p ELSE ls_p
           /\ ls_residual' = res
           /\ linear_resid_norm_' =
                 IF ~taylor_ THEN linear_resid_norm_
                 ELSE IF solve_type_ = "Picard"
                 THEN NormSq(VecSub(JacobianMult(level_, lin, out.x), ls_rhs))
                 ELSE NormSq(VecSub(JacobianMult(level_, lin, out.dx), res))
    /\ ls_print_help' = ls_print_help + 1
    /\ ls_pc' = "idle"
    /\ UNCHANGED << lscfg, ls_dMdp, ls_coef, prev_resid_norm_, ls_rhs_in,
                    ls_x_in, ls_lin, ls_steps >>

InitLS ==
    /\ alpha \in {-1, 1, 2}
    /\ num_levels_ = 2
    /\ cycle_ = "V_CYCLE"
    /\ max_num_iter_ = 0
    /\ tol_ \in TolChoices
    /\ relax_ = "none"
    /\ FASConstructed
    /\ BTIdle
    /\ UpIdle
    /\ CoIdle
    /\ ls_pc = "idle"
    /\ level_ \in Levels
    /\ solve_type_ \in {"Picard", "Newton"}
    /\ taylor_ \in BOOLEAN
    /\ ess_dofs_ \in EssMarkers(level_)
    /\ ls_max_num_backtrack \in 0..MaxBacktrack
    /\ ls_log_diff_tol \in {1, -1}
    /\ ls_rhs \in LSRhsChoices(level_)
    /\ ls_x \in LSGuesses(level_)
    /\ ls_delta_x = ZeroVec(LevelSize(level_))
    /\ ls_residual = ZeroVec(LevelSize(level_))
    /\ ls_p = ZeroVec(NumVertices(level_))
    /\ ls_kp = ZeroVec(NumVertices(level_))
    /\ ls_dMdp = ZeroMat(NumVertices(level_))
    /\ ls_coef = [kp |-> ConstVec(NumVertices(level_), ExpScale),
                  dMdp |-> ZeroMat(NumVertices(level_))]
    /\ prev_resid_norm_ = 0
    /\ ls_resid_norm = 0
    /\ linear_resid_norm_ = 0
    /\ ls_print_help = 0
    /\ ls_rhs_in = << >>
    /\ ls_x_in = << >>
    /\ ls_lin = << >>
    /\ ls_bt = << >>
    /\ ls_steps = 0
    /\ GrIdle
    /\ ParIdle

StepLS ==
    \/ LS_PicardStep
    \/ LS_NewtonStep
    \/ LS_BackTracking

NextLS ==
    StepLS /\ UNCHANGED << fasrest, btvars, upvars, covars, grvars, parvars >>

SpecLS == InitLS /\ [][NextLS]_vars


\* ---------------------------- Graph::Distribute, ConstructD ----
\* A global graph (edge -> set of its vertices) is distributed over
\* num_procs processes by a vertex partition.  Every process runs the same
\* code; the processes go through the steps together (each step ends in a
\* collective operation), in rank order within a step.  Arrays keep the
\* 0-based values of the code; position k of a C array is element k + 1 of
\* the sequence.  Ranks are 0-based.
GraphVerts == 1..3

ProcCounts == {1, 2, 3}

EdgeKinds == {S \in SUBSET GraphVerts : S # {}}

Ranks == 0 .. (num_procs - 1)

GlobalEdges == 1..Len(vert_edge_global)

Range(f) == {f[i] : i \in DOMAIN f}

RECURSIVE SortedSeq(_)
SortedSeq(S) ==
    IF S = {} THEN << >>
    ELSE LET m == CHOOSE x \in S : \A y \in S : x <= y
         IN  << m >> \o SortedSeq(S \ {m})

IndexOf(seq, x) == CHOOSE i \in 1..Len(seq) : seq[i] = x

\* PartitionToMatrix(partition, num_procs), row p
ProcVert(p) == SortedSeq({v \in GraphVerts : partition[v] = p})

\* Mult(proc_vert, vert_edge_global) with sorted column indices, row p
ProcEdge(p) ==
    SortedSeq({e \in GlobalEdges :
                  \E v \in vert_edge_global[e] : partition[v] = p})

\* Transpose(proc_edge), row e
EdgeProc(e) == SortedSeq({p \in Ranks : e \in Range(ProcEdge(p))})

\* variant: the last process of the row owns the edge
EdgeOwner_Last(e) == EdgeProc(e)[Len(EdgeProc(e))]

\* edge_proc.GetRowColumns(i)[0]
EdgeOwner(e) == EdgeProc(e)[1]

\* smoothg::Transpose of a table given by its rows
TransposeTable(rows, width) ==
    [c \in 1..width |->
        SortedSeq({r \in 1..Len(rows) : c \in Range(rows[r])})]

\* ExtractRowAndColumns(vert_edge_global, rows, cols): local vertex ->
\* its local edges
ExtractRowAndColumns(rows, cols) ==
    [i \in 1..Len(rows) |->
        SortedSeq({j \in 1..Len(cols) : rows[i] \in vert_edge_global[cols[j]]})]

\* for (i < ntedges_global) tedge_couters[owner(i) + 1]++;
RECURSIVE CountTrueEdges(_, _)
CountTrueEdges(i, tc) ==
    IF i > Len(vert_edge_global) THEN tc
    ELSE CountTrueEdges(i + 1, [tc EXCEPT ![EdgeOwner(i) + 1] = @ + 1])

RECURSIVE SumUpTo(_, _)
SumUpTo(tc, k) == IF k < 0 THEN 0 ELSE tc[k] + SumUpTo(tc, k - 1)

\* tedge_couters.PartialSum()
PartialSum(tc) == [k \in DOMAIN tc |-> SumUpTo(tc, k)]

\* for (i < ntedges_global) tedge_old2new[i] = tedge_couters[owner(i)]++;
RECURSIVE Renumber(_, _)
Renumber(i, st) ==
    IF i > Len(vert_edge_global) THEN st
    ELSE LET o == EdgeOwner(i)
         IN  Renumber(i + 1,
                      [tc |-> [st.tc EXCEPT ![o] = @ + 1],
                       old2new |-> Append(st.old2new, st.tc[o])])

\* for (i = num_procs - 1; i > 0; i--) tc[i] = tc[i - 1];  tc[0] = 0;
ShiftCounters(tc) ==
    [k \in DOMAIN tc |->
        IF k = 0 THEN 0 ELSE IF k <= num_procs - 1 THEN tc[k - 1] ELSE tc[k]]

\* the loop over the local edges: st = [diag_i, diag_j, offd_i, pairs]
RECURSIVE LocalEdgeLoop(_, _, _, _, _, _)
LocalEdgeLoop(i, loc_to_glo, old2new, tbegin, tend, st) ==
    IF i > Len(loc_to_glo) THEN st
    ELSE LET tedge_new == old2new[loc_to_glo[i]]
             own == tedge_new >= tbegin /\ tedge_new < tend
             dj == IF own THEN Append(st.diag_j, tedge_new - tbegin)
                   ELSE st.diag_j
             pr == IF own THEN st.pairs
                   ELSE Append(st.pairs,
                               [one |-> tedge_new, two |-> Len(st.pairs)])
         IN  LocalEdgeLoop(i + 1, loc_to_glo, old2new, tbegin, tend,
                           [diag_i |-> Append(st.diag_i, Len(dj)),
                            diag_j |-> dj,
                            offd_i |-> Append(st.offd_i, Len(pr)),
                            pairs |-> pr])

\* mfem::SortPairs: ascending in .one
RECURSIVE SortPairs(_)
SortPairs(ps) ==
    IF ps = {} THEN << >>
    ELSE LET m == CHOOSE x \in ps : \A y \in ps : x.one <= y.one
         IN  << m >> \o SortPairs(ps \ {m})

\* Graph::MakeEdgeTrueEdge(comm, myid, proc_edge)
MakeEdgeTrueEdge(myid) ==
    LET ntedges_global == Len(vert_edge_global)
        nedges_local == Len(ProcEdge(myid))
        counted == CountTrueEdges(1, [k \in 0..num_procs |-> 0])
        ntedges_local == counted[myid + 1]
        summed == PartialSum(counted)
        ren == Renumber(1, [tc |-> summed, old2new |-> << >>])
        tc == ShiftCounters(ren.tc)
        loop == LocalEdgeLoop(1, edge_loc_to_glo_[myid], ren.old2new,
                              tc[myid], tc[myid + 1],
                              [diag_i |-> << 0 >>, diag_j |-> << >>,
                               offd_i |-> << 0 >>, pairs |-> << >>])
        sorted == SortPairs(Range(loop.pairs))
        offd_counter == Len(loop.pairs)
    IN  [asserts |->
            (IF summed[num_procs] # ntedges_global THEN {"count"} ELSE {})
            \cup (IF nedges_local - ntedges_local < 0 THEN {"size"} ELSE {})
            \cup (IF offd_counter # nedges_local - ntedges_local
                  THEN {"offd"} ELSE {}),
         old2new |-> ren.old2new,
         diag_i |-> loop.diag_i,
         diag_j |-> loop.diag_j,
         offd_i |-> loop.offd_i,
         offd_j |-> [k \in 1..offd_counter |->
                        IndexOf(sorted, loop.pairs[k]) - 1],
         col_map |-> [k \in 1..offd_counter |-> sorted[k].one],
         tedge_begin |-> tc[myid],
         ntedges_local |-> ntedges_local,
         ntedges_global |-> ntedges_global]

\* the rows of edge_trueedge_ of process p: is local edge i in the diagonal
\* block, and which global true edge is it
InDiag(p, i) == edge_trueedge_[p].diag_i[i + 1] > edge_trueedge_[p].diag_i[i]

TrueEdgeOf(p, i) ==
    LET E == edge_trueedge_[p]
    IN  IF InDiag(p, i) THEN E.tedge_begin + E.diag_j[E.diag_i[i] + 1]
        ELSE E.col_map[E.offd_j[E.offd_i[i] + 1] + 1]

\* AAt(*edge_trueedge_), off-diagonal block: row `edge` is nonempty
EdgeIsShared(p, edge) ==
    \E q \in Ranks \ {p} :
        \E j \in 1..Len(edge_loc_to_glo_[q]) :
            TrueEdgeOf(q, j) = TrueEdgeOf(p, edge)

\* Graph::DistributeEdgeWeight(edge_weight_global)
DistributeEdgeWeight(p) ==
    [edge \in 1..Len(edge_loc_to_glo_[p]) |->
        (IF Len(edge_weight_global) > 0
         THEN edge_weight_global[edge_loc_to_glo_[p][edge]] ELSE 1)
        * (IF EdgeIsShared(p, edge) THEN 2 ELSE 1)]

\* variant: every edge is doubled
SplitRatio_Two(row_size) == 2

\* double ratio = edge_vert.RowSize(edge) == 2 ? 2.0 : 1.0;
SplitRatio(row_size) == IF row_size = 2 THEN 2 ELSE 1

\* Graph::SplitEdgeWeight(edge_weight_local)
SplitEdgeWeight(p, weight_local) ==
    LET rows == vertex_edge_local_[p]
        edge_vert == TransposeTable(rows, Len(edge_loc_to_glo_[p]))
    IN  [vert \in 1..Len(rows) |->
            [i \in 1..Len(rows[vert]) |->
                weight_local[rows[vert][i]]
                    * SplitRatio(Len(edge_vert[rows[vert][i]]))]]

\* variant: an edge that is not owned keeps +1
OneVertexSign_Plus(owned) == 1

\* graphDT_data[graphDT_i[j]] = 1.; ... else if (edge_owned.RowSize(j) == 0)
\* graphDT_data[graphDT_i[j]] = -1.;
OneVertexSign(owned) == IF owned THEN 1 ELSE -1

\* MixedMatrix::ConstructD(vertex_edge, edge_trueedge): edge -> the
\* entries << vertex, value >> of its column of D; the assertion is active
ConstructD(p) ==
    LET graphDT == TransposeTable(vertex_edge_local_[p],
                                  Len(edge_loc_to_glo_[p]))
        ok == \A j \in 1..Len(graphDT) : Len(graphDT[j]) \in {1, 2}
        val(j, k) == IF Len(graphDT[j]) = 2
                     THEN (IF k = 1 THEN 1 ELSE -1)
                     ELSE OneVertexSign(InDiag(p, j))
    IN  [ok |-> ok,
         D |-> IF ~ok THEN << >>
               ELSE [j \in 1..Len(graphDT) |->
                        [k \in 1..Len(graphDT[j]) |->
                            << graphDT[j][k], val(j, k) >>]]]

grcfg == << num_procs, vert_edge_global, partition, edge_weight_global >>

\* the step of process gr_proc is done: the next process, or the next step
GrAdvance(next) ==
    IF gr_proc < num_procs - 1
    THEN gr_proc' = gr_proc + 1 /\ UNCHANGED gr_step
    ELSE gr_proc' = 0 /\ gr_step' = next

\* Graph::DistributeVertexEdge up to the call of MakeEdgeTrueEdge
Gr_DistributeVertexEdge ==
    /\ gr_step = "vertex_edge"
    /\ LET p == gr_proc
       IN  /\ vert_loc_to_glo_' = [vert_loc_to_glo_ EXCEPT ![p] = ProcVert(p)]
           /\ edge_loc_to_glo_' = [edge_loc_to_glo_ EXCEPT ![p] = ProcEdge(p)]
           /\ vertex_edge_local_' =
                 [vertex_edge_local_ EXCEPT
                     ![p] = ExtractRowAndColumns(ProcVert(p), ProcEdge(p))]
    /\ GrAdvance("true_edge")
    /\ UNCHANGED << grcfg, edge_trueedge_, edge_weight_local,
                    edge_weight_split_, gr_D, gr_asserts >>

Gr_MakeEdgeTrueEdge ==
    /\ gr_step = "true_edge"
    /\ LET p == gr_proc
           out == MakeEdgeTrueEdge(p)
       IN  /\ edge_trueedge_' = [edge_trueedge_ EXCEPT ![p] = out]
           /\ gr_asserts' = [gr_asserts EXCEPT ![p] = @ \cup out.asserts]
    /\ GrAdvance("weight")
    /\ UNCHANGED << grcfg, vert_loc_to_glo_, edge_loc_to_glo_,
                    vertex_edge_local_, edge_weight_local,
                    edge_weight_split_, gr_D >>

Gr_DistributeEdgeWeight ==
    /\ gr_step = "weight"
    /\ edge_weight_local' =
          [edge_weight_local EXCEPT ![gr_proc] = DistributeEdgeWeight(gr_proc)]
    /\ GrAdvance("split")
    /\ UNCHANGED << grcfg, vert_loc_to_glo_, edge_loc_to_glo_,
                    vertex_edge_local_, edge_trueedge_, edge_weight_split_,
                    gr_D, gr_asserts >>

Gr_SplitEdgeWeight ==
    /\ gr_step = "split"
    /\ edge_weight_split_' =
          [edge_weight_split_ EXCEPT
              ![gr_proc] = SplitEdgeWeight(gr_proc, edge_weight_local[gr_proc])]
    /\ GrAdvance("D")
    /\ UNCHANGED << grcfg, vert_loc_to_glo_, edge_loc_to_glo_,
                    vertex_edge_local_, edge_trueedge_, edge_weight_local,
                    gr_D, gr_asserts >>

Gr_ConstructD ==
    /\ gr_step = "D"
    /\ LET out == ConstructD(gr_proc)
       IN  /\ gr_D' = [gr_D EXCEPT ![gr_proc] = out.D]
           /\ gr_asserts' =
                 [gr_asserts EXCEPT
                     ![gr_proc] = IF out.ok THEN @ ELSE @ \cup {"row_size"}]
    /\ GrAdvance("done")
    /\ UNCHANGED << grcfg, vert_loc_to_glo_, edge_loc_to_glo_,
                    vertex_edge_local_, edge_trueedge_, edge_weight_local,
                    edge_weight_split_ >>

EdgeLists ==
    UNION {[1..n -> EdgeKinds] : n \in 1..MaxEdges}

InitGr ==
    /\ alpha \in {1}
    /\ FASIdle
    /\ BTIdle
    /\ UpIdle
    /\ CoIdle
    /\ LSIdle
    /\ ParIdle
    /\ gr_step = "vertex_edge"
    /\ gr_proc = 0
    /\ num_procs \in ProcCounts
    /\ vert_edge_global \in EdgeLists
    /\ partition \in [GraphVerts -> Ranks]
    /\ edge_weight_global \in
          {<< >>, [e \in 1..Len(vert_edge_global) |-> 2 * e + 1]}
    /\ vert_loc_to_glo_ = [p \in Ranks |-> << >>]
    /\ edge_loc_to_glo_ = [p \in Ranks |-> << >>]
    /\ vertex_edge_local_ = [p \in Ranks |-> << >>]
    /\ edge_trueedge_ = [p \in Ranks |-> << >>]
    /\ edge_weight_local = [p \in Ranks |-> << >>]
    /\ edge_weight_split_ = [p \in Ranks |-> << >>]
    /\ gr_D = [p \in Ranks |-> << >>]
    /\ gr_asserts = [p \in Ranks |-> {}]

StepGr ==
    \/ Gr_DistributeVertexEdge
    \/ Gr_MakeEdgeTrueEdge
    \/ Gr_DistributeEdgeWeight
    \/ Gr_SplitEdgeWeight
    \/ Gr_ConstructD

NextGr ==
    StepGr /\ UNCHANGED << fasvars, btvars, upvars, covars, lsvars, parvars >>

SpecGr == InitGr /\ [][NextGr]_vars


\* ------------------------- NonlinearMG::Solve on several processes ----
\* Every process of comm_ runs NonlinearMG::Solve on its part of the
\* vectors.  A collective operation (the global norm in ResidualNorm, the
\* global maximum in BackTracking, the linear solve of the level) is entered
\* by each process with its local part and completes, with its result
\* delivered to all, when every process has entered the same operation.  The
\* local parts of the vectors are arbitrary: each process draws the local
\* sum of squares (norm) or the local maximum when it enters the operation.
\* The parameters num_levels_, cycle_, max_num_iter_, tol_,
\* max_num_backtrack_ and interlopate are those of the one parameter object
\* every process constructs its solver from.  The level solve is one
\* PicardStep.
ParRanks == {1, 2}

PartVals == {0, 1}

RECURSIVE SumParts(_, _)
SumParts(parts, S) ==
    IF S = {} THEN 0
    ELSE LET q == CHOOSE r \in S : TRUE
         IN  parts[q] + SumParts(parts, S \ {q})

\* variant: the norm of the local part
ParNormlp_Local(parts, p) == parts[p]

\* mfem::ParNormlp(v, 2, comm), squared: the sum over all processes
ParNormlp(parts, p) == SumParts(parts, ParRanks)

\* AbsMax(v, comm): the largest local maximum
AbsMax(parts, p) ==
    CHOOSE m \in {parts[q] : q \in ParRanks} :
        \A q \in ParRanks : parts[q] <= m

\* what process p is handed when the operation completes
Reduced(op, parts, p) ==
    CASE op = "norm" -> ParNormlp(parts, p)
      [] op = "max" -> AbsMax(parts, p)
      [] op = "linear_solve" -> 0

\* process p enters a collective with its local part; the result goes to
\* `dest` and the process continues at `cont`
Enter(p, op, part, dest, cont) ==
    /\ par_pc' = [par_pc EXCEPT ![p] = "wait"]
    /\ par_op' = [par_op EXCEPT ![p] = op]
    /\ par_part' = [par_part EXCEPT ![p] = part]
    /\ par_dest' = [par_dest EXCEPT ![p] = dest]
    /\ par_cont' = [par_cont EXCEPT ![p] = cont]
    /\ par_count' = [par_count EXCEPT ![p] = @ + 1]

ParGoto(p, pc) ==
    /\ par_pc' = [par_pc EXCEPT ![p] = pc]
    /\ UNCHANGED << par_cont, par_op, par_dest, par_part, par_count >>

\* every process has entered the same operation: it completes
Par_Complete ==
    /\ \A p \in ParRanks : par_pc[p] = "wait"
    /\ \A p, q \in ParRanks : par_op[p] = par_op[q]
    /\ par_val' = [p \in ParRanks |->
                     IF par_dest[p] = "none" THEN par_val[p]
                     ELSE [par_val[p] EXCEPT
                             ![par_dest[p]] =
                                 Reduced(par_op[p], par_part, p)]]
    /\ par_pc' = [p \in ParRanks |-> par_cont[p]]
    /\ par_cont' = [p \in ParRanks |-> "none"]
    /\ par_op' = [p \in ParRanks |-> "none"]
    /\ par_dest' = [p \in ParRanks |-> "none"]
    /\ par_part' = [p \in ParRanks |-> 0]
    /\ UNCHANGED << par_iter, par_converged, par_level, par_stage, par_k,
                    par_count >>

\* Solve: norm = ResidualNorm(zero_vec, rhs); converged_ = false
Par_SolveBegin(p, part) ==
    /\ par_pc[p] = "start"
    /\ Enter(p, "norm", part, "norm", "head")
    /\ par_iter' = [par_iter EXCEPT ![p] = 0]
    /\ par_converged' = [par_converged EXCEPT ![p] = FALSE]
    /\ UNCHANGED << par_val, par_level, par_stage, par_k >>

\* for (...; iter_ < max_num_iter_; ...) resid = ResidualNorm(sol_[0], rhs)
Par_LoopHead(p, part) ==
    /\ par_pc[p] = "head"
    /\ IF par_iter[p] < max_num_iter_
       THEN Enter(p, "norm", part, "resid", "test")
       ELSE ParGoto(p, "done")
    /\ UNCHANGED << par_val, par_iter, par_converged, par_level, par_stage,
                    par_k >>

\* if (resid < atol_ || rel_resid < rtol_) { converged_ = true; break; }
\* FAS_Cycle(0);
Par_Test(p) ==
    /\ par_pc[p] = "test"
    /\ IF ConvergenceTest(par_val[p].resid, par_val[p].norm)
       THEN /\ par_converged' = [par_converged EXCEPT ![p] = TRUE]
            /\ ParGoto(p, "done")
            /\ UNCHANGED par_level
       ELSE /\ par_level' = [par_level EXCEPT ![p] = 0]
            /\ ParGoto(p, "cycle")
            /\ UNCHANGED par_converged
    /\ par_val' = [par_val EXCEPT ![p].resid = 0]
    /\ UNCHANGED << par_iter, par_stage, par_k >>

\* FAS_Cycle(level) up to its first smoothing or its recursive call
Par_CycleEnter(p) ==
    /\ par_pc[p] = "cycle"
    /\ IF IsCoarsest(par_level[p])
       THEN /\ par_stage' = [par_stage EXCEPT ![p] = "coarse"]
            /\ ParGoto(p, "step")
            /\ UNCHANGED par_level
       ELSE IF cycle_ = "V_CYCLE"
       THEN /\ par_stage' = [par_stage EXCEPT ![p] = "pre"]
            /\ ParGoto(p, "step")
            /\ UNCHANGED par_level
       ELSE /\ par_level' = [par_level EXCEPT ![p] = @ + 1]
            /\ ParGoto(p, "cycle")
            /\ UNCHANGED par_stage
    /\ UNCHANGED << par_val, par_iter, par_converged, par_k >>

\* PicardStep: prev_resid_norm_ = ResidualNorm(x, rhs)
Par_StepNorm(p, part) ==
    /\ par_pc[p] = "step"
    /\ Enter(p, "norm", part, "prev", "solve")
    /\ UNCHANGED << par_val, par_iter, par_converged, par_level, par_stage,
                    par_k >>

\* PicardStep: hierarchy_.Solve(level_, rhs, x)
Par_LinearSolve(p) ==
    /\ par_pc[p] = "solve"
    /\ Enter(p, "linear_solve", 0, "none", "bt")
    /\ UNCHANGED << par_val, par_iter, par_converged, par_level, par_stage,
                    par_k >>

\* BackTracking: k = 0; if (!interlopate) max_pressure_change = AbsMax(...)
Par_BTMax(p, part) ==
    /\ par_pc[p] = "bt"
    /\ par_k' = [par_k EXCEPT ![p] = 0]
    /\ IF ~bt_interlopate
       THEN Enter(p, "max", part, "max", "first")
       ELSE ParGoto(p, "first")
    /\ UNCHANGED << par_val, par_iter, par_converged, par_level, par_stage >>

\* BackTracking: the clamp (local), then
\* if (max_num_backtrack_ > 0) resid_norm_ = ResidualNorm(x, rhs)
Par_BTFirstNorm(p, part) ==
    /\ par_pc[p] = "first"
    /\ IF max_num_backtrack_ > 0
       THEN Enter(p, "norm", part, "resid_norm", "loop")
       ELSE ParGoto(p, "loop")
    /\ par_val' = [par_val EXCEPT ![p].max = 0]
    /\ UNCHANGED << par_iter, par_converged, par_level, par_stage, par_k >>

\* while (k < max_num_backtrack_ && resid_norm_ > prev_resid_norm)
\* { backtracking_resid_norm = resid_norm_; ...; resid_norm_ = ResidualNorm
Par_BTLoop(p, part) ==
    /\ par_pc[p] = "loop"
    /\ IF BT_LoopCond(par_k[p], par_val[p].resid_norm, par_val[p].prev)
       THEN /\ par_val' = [par_val EXCEPT
                             ![p].before = par_val[p].resid_norm]
            /\ Enter(p, "norm", part, "resid_norm", "stall")
       ELSE /\ ParGoto(p, "after")
            /\ UNCHANGED par_val
    /\ UNCHANGED << par_iter, par_converged, par_level, par_stage, par_k >>

\* if (resid_norm_ > 0.9 * backtracking_resid_norm) { x -= dx; break; } k++
\* (norms are squared: 100 r > 81 b)
Par_BTStall(p) ==
    /\ par_pc[p] = "stall"
    /\ IF 100 * par_val[p].resid_norm > 81 * par_val[p].before
       THEN /\ ParGoto(p, "after")
            /\ UNCHANGED par_k
       ELSE /\ par_k' = [par_k EXCEPT ![p] = @ + 1]
            /\ ParGoto(p, "loop")
    /\ par_val' = [par_val EXCEPT ![p].before = 0]
    /\ UNCHANGED << par_iter, par_converged, par_level, par_stage >>

\* the smoothing has returned: the rest of FAS_Cycle (transfers, recursive
\* call, post-smoothing, return) up to the next smoothing or the loop head.
\* The next step of a level solver writes prev_resid_norm_ and resid_norm_
\* before it reads them; the values of this step are forgotten here.
Par_CycleResume(p) ==
    /\ par_pc[p] = "after"
    /\ par_val' = [par_val EXCEPT ![p].prev = 0, ![p].resid_norm = 0]
    /\ par_k' = [par_k EXCEPT ![p] = 0]
    /\ IF par_stage[p] = "pre"
       THEN /\ par_level' = [par_level EXCEPT ![p] = @ + 1]
            /\ ParGoto(p, "cycle")
            /\ UNCHANGED << par_stage, par_iter >>
       ELSE IF par_level[p] = 0
       THEN /\ par_iter' = [par_iter EXCEPT ![p] = NextIter(@)]
            /\ ParGoto(p, "head")
            /\ UNCHANGED << par_stage, par_level >>
       ELSE /\ par_level' = [par_level EXCEPT ![p] = @ - 1]
            /\ par_stage' = [par_stage EXCEPT ![p] = "post"]
            /\ ParGoto(p, "step")
            /\ UNCHANGED par_iter
    /\ UNCHANGED par_converged

ParLevelChoices == {1, 2}

InitPar ==
    /\ alpha \in {1}
    /\ num_levels_ \in ParLevelChoices
    /\ cycle_ \in CycleKinds
    /\ max_num_iter_ \in 0..MaxIter
    /\ tol_ \in TolChoices
    /\ relax_ = "none"
    /\ FASConstructed
    /\ bt_pc = "off"
    /\ bt_interlopate \in BOOLEAN
    /\ max_num_backtrack_ \in 0..MaxBacktrack
    /\ log_diff_tol_ = 0
    /\ bt_x = << >>
    /\ bt_dx = << >>
    /\ bt_k = 0
    /\ resid_norm_ = 0
    /\ bt_prev = 0
    /\ print_help = 0
    /\ bt_x0 = << >>
    /\ bt_dx0 = << >>
    /\ bt_land = << >>
    /\ bt_stalled = FALSE
    /\ UpIdle
    /\ CoIdle
    /\ LSIdle
    /\ GrIdle
    /\ par_pc = [p \in ParRanks |-> "start"]
    /\ par_cont = [p \in ParRanks |-> "none"]
    /\ par_op = [p \in ParRanks |-> "none"]
    /\ par_dest = [p \in ParRanks |-> "none"]
    /\ par_part = [p \in ParRanks |-> 0]
    /\ par_val = [p \in ParRanks |->
                    [norm |-> 0, resid |-> 0, prev |-> 0, max |-> 0,
                     resid_norm |-> 0, before |-> 0]]
    /\ par_iter = [p \in ParRanks |-> 0]
    /\ par_converged = [p \in ParRanks |-> FALSE]
    /\ par_level = [p \in ParRanks |-> 0]
    /\ par_stage = [p \in ParRanks |-> "pre"]
    /\ par_k = [p \in ParRanks |-> 0]
    /\ par_count = [p \in ParRanks |-> 0]

StepPar ==
    \/ Par_Complete
    \/ \E p \in ParRanks, part \in PartVals : Par_SolveBegin(p, part)
    \/ \E p \in ParRanks, part \in PartVals : Par_LoopHead(p, part)
    \/ \E p \in ParRanks : Par_Test(p)
    \/ \E p \in ParRanks : Par_CycleEnter(p)
    \/ \E p \in ParRanks, part \in PartVals : Par_StepNorm(p, part)
    \/ \E p \in ParRanks : Par_LinearSolve(p)
    \/ \E p \in ParRanks, part \in PartVals : Par_BTMax(p, part)
    \/ \E p \in ParRanks, part \in PartVals : Par_BTFirstNorm(p, part)
    \/ \E p \in ParRanks, part \in PartVals : Par_BTLoop(p, part)
    \/ \E p \in ParRanks : Par_BTStall(p)
    \/ \E p \in ParRanks : Par_CycleResume(p)

NextPar ==
    StepPar /\ UNCHANGED << fasvars, btvars, upvars, covars, lsvars, grvars >>

SpecPar == InitPar /\ [][NextPar]_vars


\* ------------------------------------------------------ claims: FAS ----
\* the convergence test of the claim, applied to a vector x of level 0
PassesTest(x) ==
    LET r == ResidualNormSq(0, x, rhs_arg)
        n == ResidualNormSq(0, ZeroVec(Len(x)), rhs_arg)
    IN  \/ r < tol_.asq
        \/ n > 0 /\ r * tol_.rden_sq < tol_.rnum_sq * n

\* C1: when the initial guess already passes the convergence test and
\* max_num_iter_ >= 1, Solve runs no FAS cycle, reports convergence with
\* iter_ = 0 and hands back the initial guess unchanged.
C1_ZeroResidualIdempotent ==
    (spc = "done" /\ max_num_iter_ >= 1 /\ PassesTest(sol_in))
        => /\ cycles = 0
           /\ converged_
           /\ iter_ = 0
           /\ sol_arg = sol_in

C1_Witness ==
    /\ spc = "done"
    /\ max_num_iter_ >= 1
    /\ PassesTest(sol_in)
    /\ sol_in # ZeroVec(Len(sol_in))
    /\ cycles = 0
    /\ sol_arg = sol_in

\* C2 (as claimed): after a non-converged Solve no iterate produced by an
\* earlier FAS cycle of this call has a smaller residual norm than the
\* returned one.
C2_ReturnsBestIterate ==
    (spc = "done" /\ ~converged_)
        => \A i \in 1..Len(hist) :
              hist[i].r >= ResidualNormSq(0, sol_arg, rhs_arg)

\* C2 (amended): a Solve that exhausts max_num_iter_ cycles returns
\* normally with converged_ false and hands back the last iterate, the
\* result of the last FAS cycle (the initial guess if no cycle ran).
C2_ReturnsLastIterate ==
    (spc = "done" /\ ~converged_)
        => /\ cycles = max_num_iter_
           /\ sol_arg = sol_[0]
           /\ sol_arg = (IF Len(hist) = 0 THEN sol_in ELSE hist[Len(hist)].x)

C2_Witness ==
    /\ spc = "done"
    /\ ~converged_
    /\ cycles = max_num_iter_
    /\ Len(hist) >= 2
    /\ sol_arg = hist[Len(hist)].x
    /\ hist[1].r < hist[Len(hist)].r

\* C3: a Solve runs at most max_num_iter_ FAS cycles, on leaving the loop
\* iter_ is the number of cycles run (0 <= iter_ <= max_num_iter_), and a
\* cycle in progress enters each level at most once, so its work is bounded.
C3_BoundedWork ==
    /\ cycles <= max_num_iter_
    /\ spc \in {"exit", "done"} => (iter_ = cycles /\ 0 <= iter_
                                    /\ iter_ <= max_num_iter_)
    /\ spc = "cycle" => (stack # << >> /\ Len(stack) <= num_levels_
                         /\ \A l \in Levels : calls[l] <= 1)

C3_Witness ==
    /\ spc = "done"
    /\ iter_ = cycles
    /\ cycles = max_num_iter_
    /\ cycles >= 2

\* C4: one FAS cycle recurses through the levels 0, 1, ..., num_levels-1
\* once each (depth num_levels); the coarsest level does exactly one level
\* solve and no transfer; with one level a cycle is one level-0 solve.
C4_RecursionStructure ==
    /\ Len(stack) <= num_levels_
    /\ \A i \in 1..Len(stack) : stack[i].level = i - 1
    /\ (cycles > 0 /\ stack = << >>)
          => /\ maxdepth = num_levels_
             /\ \A l \in Levels : calls[l] = 1
             /\ lsolves[num_levels_ - 1] = 1
             /\ xfers[num_levels_ - 1] = 0

C4_Witness ==
    /\ cycles > 0
    /\ stack = << >>
    /\ num_levels_ = MaxLevels
    /\ maxdepth = num_levels_
    /\ lsolves[num_levels_ - 1] = 1

\* the call was made after a linearized solve, with backtracking enabled,
\* and has returned
BT_Returned ==
    bt_pc = "done" /\ ~bt_interlopate /\ max_num_backtrack_ >= 1

\* C5 (as claimed): for every call of BackTracking after a linearized solve
\* with max_num_backtrack_ >= 1, the residual norm of the returned iterate
\* is no larger than prev_resid_norm.
C5_GuaranteesDecrease ==
    BT_Returned => bt_land[bt_x] <= bt_prev

\* C5 (amended): on return the residual norm of the iterate is no larger
\* than prev_resid_norm, or max_num_backtrack_ halvings were accepted, or
\* the last halving stalled (its norm exceeded 0.9 of the norm before it)
\* and was undone.  A halving is tried only while the norm is larger than
\* prev_resid_norm, and the step kept is the proposed one shrunk.
C5_BoundedBacktracking ==
    /\ BT_Returned =>
          \/ bt_land[bt_x] <= bt_prev
          \/ bt_k = max_num_backtrack_
          \/ bt_stalled
    /\ bt_pc = "done" => bt_k <= max_num_backtrack_
    /\ (bt_pc = "done" /\ max_num_backtrack_ >= 1 /\ ~bt_stalled
        /\ bt_k < max_num_backtrack_) => resid_norm_ = bt_land[bt_x]

C5_Witness ==
    /\ BT_Returned
    /\ bt_k >= 1
    /\ ~bt_stalled
    /\ bt_k < max_num_backtrack_
    /\ bt_land[bt_x] <= bt_prev

\* the step with which the halving phase of the current call was entered:
\* the caller's step, divided by relative_change if that exceeded one
ProposedStep ==
    IF ~bt_interlopate /\ RelativeChangeAboveOne(bt_dx0)
    THEN Clamped(bt_dx0) ELSE bt_dx0

InHalvingPhase == bt_pc \in {"loop", "done"}

\* a pass of the loop body: dx is halved
HalvingPass == bt_pc = "loop" /\ bt_dx' # bt_dx

\* C19: at most max_num_backtrack_ halvings are accepted; after k accepted
\* halvings x = x_before_step - dx_proposed / 2^k and dx was halved k times
\* (once more if the last halving stalled); with max_num_backtrack_ = 0 the
\* halving phase leaves x and dx as it found them; a halving is done only
\* while k < max_num_backtrack_ and the residual norm exceeds prev_resid_norm.
C19_BoundedHalving ==
    /\ [](InHalvingPhase =>
            /\ bt_k <= max_num_backtrack_
            /\ bt_k + (IF bt_stalled THEN 1 ELSE 0) <= max_num_backtrack_
            /\ \A i \in 1..Len(bt_x) :
                  /\ (bt_x0[i] - bt_x[i]) * (2 ^ bt_k) = ProposedStep[i]
                  /\ bt_dx[i] * (2 ^ (bt_k + (IF bt_stalled THEN 1 ELSE 0)))
                        = ProposedStep[i]
            /\ max_num_backtrack_ = 0 =>
                  (bt_x = VecSub(bt_x0, ProposedStep) /\ bt_dx = ProposedStep))
    /\ [][ HalvingPass =>
              /\ bt_k < max_num_backtrack_
              /\ resid_norm_ > bt_prev
              /\ resid_norm_ = bt_land[bt_x]
              /\ bt_dx' = Halve(bt_dx) ]_vars

C19_Witness ==
    /\ bt_pc = "done"
    /\ bt_k = 2
    /\ ~bt_stalled
    /\ ProposedStep # bt_dx0
    /\ bt_x # bt_x0
    /\ bt_x # VecSub(bt_x0, bt_dx0)

\* C20: a halving whose norm is more than 0.9 of the norm before it is
\* undone: x is what it was before that halving, the count of accepted
\* halvings is not advanced, and the loop is left; nothing is halved after.
C20_StallUndone ==
    /\ [][ (HalvingPass /\ 10 * resid_norm_' > 9 * resid_norm_) =>
              /\ bt_x' = bt_x
              /\ bt_k' = bt_k
              /\ bt_stalled'
              /\ bt_pc' = "done" ]_vars
    /\ [][ (HalvingPass /\ ~(10 * resid_norm_' > 9 * resid_norm_)) =>
              /\ bt_x' = VecAdd(bt_x, bt_dx')
              /\ bt_k' = bt_k + 1
              /\ ~bt_stalled' ]_vars
    /\ [][ bt_stalled => UNCHANGED << bt_x, bt_dx, bt_k >> ]_vars

C20_Witness ==
    /\ bt_pc = "done"
    /\ bt_stalled
    /\ bt_k + 2 <= max_num_backtrack_
    /\ bt_land[VecAdd(bt_x, bt_dx)] < bt_land[bt_x]
    /\ bt_land[VecAdd(bt_x, bt_dx)] > bt_prev

\* a Picard / Newton step's call of BackTracking is past the clamp
PastClamp == bt_pc \in {"norm", "loop", "done"} /\ ~bt_interlopate

\* C21 (as claimed): past the clamp, for every nonzero alpha and every
\* diff_tol > 1, the largest pressure change of the step times |alpha| is at
\* most log(diff_tol), and x = x_before_step - dx.
C21_StepClamped ==
    (PastClamp /\ alpha # 0 /\ log_diff_tol_ > 0) =>
        /\ AbsMaxPressure(bt_dx) * Abs(alpha) <= log_diff_tol_
        /\ bt_pc = "norm" => bt_x = VecSub(bt_x0, bt_dx)

\* C28 (as claimed): on every return from BackTracking x is the iterate
\* before the step minus the returned dx, and with max_num_backtrack_ > 0
\* resid_norm_ is the residual norm of the returned x.
C28_StepIterateConsistent ==
    bt_pc = "done" =>
        /\ bt_x = VecSub(bt_x0, bt_dx)
        /\ max_num_backtrack_ > 0 => resid_norm_ = bt_land[bt_x]

\* C29: the processes execute the same sequence of collective operations:
\* two processes waiting in a collective wait in the same operation, the
\* same number of operations into the call; no process waits in a
\* collective after another has returned from Solve; processes that are at
\* the same point and level after the same number of collectives hold the same
\* reduced values, counters and flag, so they decide every branch alike;
\* and all return after the same number of collectives with the same
\* iter_ and converged_.
C29_SameCollectives ==
    \A p, q \in ParRanks :
        /\ (par_pc[p] = "wait" /\ par_pc[q] = "wait") =>
              (par_op[p] = par_op[q] /\ par_count[p] = par_count[q]
               /\ par_cont[p] = par_cont[q])
        /\ ~(par_pc[p] = "wait" /\ par_pc[q] = "done")
        /\ (par_pc[p] = par_pc[q] /\ par_level[p] = par_level[q]
            /\ par_count[p] = par_count[q] /\ par_pc[p] # "wait") =>
              /\ par_val[p] = par_val[q]
              /\ par_iter[p] = par_iter[q]
              /\ par_k[p] = par_k[q]
              /\ par_stage[p] = par_stage[q]
              /\ par_converged[p] = par_converged[q]
        /\ (par_pc[p] = "done" /\ par_pc[q] = "done") =>
              par_count[p] = par_count[q]

\* in the second outer iteration, in the coarse solve of a two-level cycle,
\* both processes are in the norm of a second halving with different local
\* parts
C29_Witness ==
    /\ num_levels_ = 2
    /\ \A p \in ParRanks :
          /\ par_pc[p] = "wait"
          /\ par_op[p] = "norm"
          /\ par_cont[p] = "stall"
          /\ par_k[p] = 1
          /\ par_level[p] = 1
          /\ par_iter[p] = 1
    /\ par_part[1] # par_part[2]

\* what a transfer step at the given position may change: one vector
OnlyChanged(vec, vec1, k) ==
    /\ \A l \in Levels : l # k => vec1[l] = vec[l]

NonTrivialAggregation == Len(co_aggs) < NumFineVertices

CycleSteps == << "enter", "resid", "restrict", "project", "crhs", "store",
                 "recurse", "correct", "interp", "update", "post", "ret" >>

StepIndex(pc) == CHOOSE i \in 1..Len(CycleSteps) : CycleSteps[i] = pc

\* the top frame is in FAS_Cycle(l) of a level that has a coarser one
InFineCycle ==
    /\ spc = "cycle"
    /\ stack # << >>
    /\ Top.level < num_levels_ - 1
    /\ Top.pc # "ret"

\* the frame on top moves to its next step; smooths tells how many level
\* solves of its level the step makes
FrameAdvances(smooths) ==
    LET d == Len(stack)
        l == Top.level
    IN  /\ Len(stack') >= d
        /\ stack'[d].level = l
        /\ StepIndex(stack'[d].pc) = StepIndex(Top.pc) + 1
        /\ lsolves'[l] = lsolves[l] + smooths
        /\ (Top.pc = "recurse") =
              (Len(stack') = d + 1 /\ calls'[l + 1] = calls[l + 1] + 1)
        /\ (Top.pc = "recurse") =>
              (stack'[d + 1].level = l + 1 /\ stack'[d + 1].pc = "enter")
        /\ xfers'[l] = xfers[l]
              + (IF Top.pc \in {"restrict", "project", "interp"} THEN 1 ELSE 0)

C14_CoarseRhs ==
    TopAt("store") =>
        LET l == Top.level
            s == sol_[l]
        IN  /\ sol_[l + 1] = HProject(l, s)
            /\ rhs_[l + 1] =
                  VecSub(LevelMult(l + 1, HProject(l, s)),
                         HRestrict(l, VecSub(LevelMult(l, s), rhs_[l])))

C14_Witness ==
    /\ TopAt("store")
    /\ Top.level = 0
    /\ num_levels_ >= 3
    /\ HProject(0, sol_[0]) # HRestrict(0, sol_[0])
    /\ rhs_[1] # ZeroVec(LevelSize(1))
    /\ lsolves[0] = 1

\* C15: the coarse iterate is saved right before the recursion, the saved
\* vector is kept while the coarser levels work, and after the recursion
\* sol_[l] becomes sol_[l] - Interpolate(saved - sol_[l+1]); a recursion
\* that leaves the coarse iterate unchanged leaves sol_[l] unchanged.
C15_CoarseCorrection ==
    [][ /\ TopAt("store") =>
              (stack'[Len(stack)].help_2 = sol_[Top.level + 1]
               /\ sol_' = sol_)
        /\ \A i \in 1..(Len(stack) - 1) : stack'[i] = stack[i]
        /\ TopAt("correct") =>
              (stack'[Len(stack)].help_2
                  = VecSub(Top.help_2, sol_[Top.level + 1])
               /\ sol_' = sol_)
        /\ TopAt("interp") =>
              (help_'[Top.level] = HInterpolate(Top.level + 1, Top.help_2)
               /\ sol_' = sol_ /\ stack'[Len(stack)].help_2 = Top.help_2)
        /\ TopAt("update") =>
              /\ help_[Top.level] = HInterpolate(Top.level + 1, Top.help_2)
              /\ sol_' = [sol_ EXCEPT ![Top.level] =
                            VecSub(@, HInterpolate(Top.level + 1, Top.help_2))]
              /\ (Top.help_2 = ZeroVec(Len(Top.help_2)))
                    => sol_'[Top.level] = sol_[Top.level] ]_vars

C15_Witness ==
    /\ TopAt("post")
    /\ Top.level = 0
    /\ num_levels_ >= 2
    /\ Top.help_2 # ZeroVec(Len(Top.help_2))
    /\ help_[0] = HInterpolate(1, Top.help_2)
    /\ help_[0] # ZeroVec(LevelSize(0))

\* C16 (as claimed): with FMG a solve does a full V-cycle, with pre- and
\* post-smoothing on every level that has a coarser one, after having
\* started from the coarsest level.
C16_FMGThenFullVCycle ==
    (cycle_ = "FMG" /\ TopAt("ret") /\ Top.level = 0 /\ num_levels_ >= 2)
        => lsolves[0] = 2

\* C25 (as claimed): on every return from Solve with max_num_iter_ >= 1 the
\* flag converged_ is true exactly if the returned sol passes the
\* convergence test.
C25_FlagMatchesSolution ==
    (spc = "done" /\ max_num_iter_ >= 1)
        => (converged_ <=> PassesTest(sol_arg))

\* C26: FAS_Cycle(l) leaves rhs_[0..l] alone (only coarser right-hand sides
\* are written); from the copy at the start of Solve until its return
\* rhs_[0] equals the caller's rhs, and the caller's rhs is not modified
\* while the call runs.
C26_RhsPreserved ==
    /\ [](spc \in {"loop", "cycle", "exit"} => rhs_[0] = rhs_arg)
    /\ [][(spc = "cycle" /\ stack # << >>)
            => \A l \in 0 .. Top.level : rhs_'[l] = rhs_[l]]_vars
    /\ [][(spc \in {"loop", "cycle", "exit"}) => rhs_arg' = rhs_arg]_vars

\* FAS_Cycle(1) of a three-level cycle has just written rhs_[2]; the two
\* finer right-hand sides are in use and nonzero
C26_Witness ==
    /\ TopAt("store")
    /\ Top.level = 1
    /\ rhs_[2] # ZeroVec(Len(rhs_[2]))
    /\ rhs_[1] # ZeroVec(Len(rhs_[1]))
    /\ rhs_[0] = rhs_arg
    /\ rhs_arg # ZeroVec(Len(rhs_arg))
    /\ help_[1] # ZeroVec(Len(help_[1]))

\* the FAS cycles of a call: what each was given, and what it left in
\* sol_[0] and in all of rhs_, sol_ and help_
CyclesOf(alpha_call, rhs, sol, h) ==
    {[alpha |-> alpha_call, rhs |-> rhs,
      in |-> IF k = 1 THEN sol ELSE h[k - 1].x,
      out |-> h[k].x, vecs |-> h[k].vecs] : k \in 1..Len(h)}

\* every FAS cycle that has finished so far, in returned calls and in the
\* current one
CyclesRun ==
    UNION {CyclesOf(returned[i].alpha, returned[i].rhs, returned[i].sol,
                    returned[i].hist) : i \in 1..Len(returned)}
        \cup (IF spc \in {"loop", "cycle", "exit"}
              THEN CyclesOf(alpha, rhs_arg, sol_in, hist) ELSE {})

\* C27: the result of Solve(rhs, sol) and of every FAS cycle depends on
\* what it is given only, not on what earlier cycles or earlier calls left
\* in rhs_[l], sol_[l] (l >= 1) and help_[l]: two calls with the same alpha,
\* rhs and initial guess return the same sol, flag, iteration count and
\* iterates, and two cycles entered with the same rhs and iterate leave the
\* same iterate and the same level vectors.
C27_NoStaleState ==
    /\ \A i, j \in 1..Len(returned) :
          (/\ returned[i].alpha = returned[j].alpha
           /\ returned[i].rhs = returned[j].rhs
           /\ returned[i].sol = returned[j].sol)
              => returned[i] = returned[j]
    /\ \A c, d \in CyclesRun :
          (c.alpha = d.alpha /\ c.rhs = d.rhs /\ c.in = d.in)
              => c = d

\* the first cycle of a second call is given what the second cycle of the
\* first call was given, and the two are entered with different nonzero
\* values left in help_
C27_Witness ==
    /\ spc = "done"
    /\ num_levels_ >= 2
    /\ Len(returned) = 2
    /\ returned[1].rhs = returned[2].rhs
    /\ returned[1].alpha = returned[2].alpha
    /\ Len(returned[1].hist) = 2
    /\ Len(returned[2].hist) >= 1
    /\ returned[2].sol = returned[1].hist[1].x
    /\ returned[2].sol # returned[1].sol
    /\ returned[1].hist[1].vecs[3] # returned[1].hist[2].vecs[3]
    /\ help_[0] # ZeroVec(Len(help_[0]))
    /\ help_[1] # ZeroVec(Len(help_[1]))
    /\ sol_[1] # ZeroVec(Len(sol_[1]))
    /\ rhs_[1] # ZeroVec(Len(rhs_[1]))

\* the level solver is about to call BackTracking from a step of this kind
StepSolved(kind) == ls_pc = "backtracking" /\ solve_type_ = kind

\* C17: when PicardStep calls BackTracking, the level's M carries k(p) of the
\* iterate the step was entered with, the linear solver was given the
\* caller's right-hand side, which is unchanged, x is the solver's output
\* and the step handed over is x_old - x_new.
C17_PicardStep ==
    StepSolved("Picard") =>
        LET kp_in == Kappa(PWConstProject(level_, Block1(level_, ls_x_in)))
            coef_in == [kp |-> kp_in, dMdp |-> ZeroMat(NumVertices(level_))]
        IN  /\ ls_coef = coef_in
            /\ ls_rhs = ls_rhs_in
            /\ ls_lin.rhs = ls_rhs_in
            /\ ls_lin.coef = coef_in
            /\ ls_x = LinearSolve(level_, coef_in, ls_rhs_in, ls_x_in)
            /\ ls_delta_x = VecSub(ls_x_in, ls_x)

C17_Witness ==
    /\ StepSolved("Picard")
    /\ level_ = 0
    /\ ls_x # ls_x_in
    /\ ls_coef.kp # ConstVec(NumVertices(level_), ExpScale)
    /\ ls_residual # ZeroVec(LevelSize(level_))
    /\ ls_residual # ls_rhs
    /\ LinearSolve(level_, ls_coef, ls_residual, ls_x_in) # ls_x

\* C18: when NewtonStep calls BackTracking, residual_ is A(x) - rhs with
\* exactly the essential flux entries set to zero, the correction is the
\* linear solver's answer to that residual, x is x_old - dx, and the
\* previous residual norm is the norm of the zeroed residual.
C18_NewtonStep ==
    StepSolved("Newton") =>
        LET n == NumVertices(level_)
            r0 == VecSub(LevelMult(level_, ls_x_in), ls_rhs_in)
            ev == EvalCoef(level_, ls_x_in)
            jac == [kp |-> ev.kp,
                    dMdp |-> Build_dMdp(level_, ls_x_in, DKinv_dp(ev.p))]
        IN  /\ \A i \in 1..(2 * n) :
                  ls_residual[i] =
                      IF i <= n /\ ess_dofs_[i] = 1 THEN 0 ELSE r0[i]
            /\ ls_lin.rhs = ls_residual
            /\ ls_delta_x = LinearSolve(level_, jac, ls_residual, ZeroVec(2 * n))
            /\ ls_x = VecSub(ls_x_in, ls_delta_x)
            /\ prev_resid_norm_ = NormSq(ls_residual)
            /\ ls_rhs = ls_rhs_in

C18_Witness ==
    /\ StepSolved("Newton")
    /\ level_ = 0
    /\ ess_dofs_ = << 1, 0 >>
    /\ LevelMult(level_, ls_x_in)[1] # ls_rhs_in[1]
    /\ ls_residual[1] = 0
    /\ ls_residual[2] # 0
    /\ ls_residual[3] # 0
    /\ ls_delta_x # ZeroVec(LevelSize(level_))

\* the vertices of global edge e that process p holds, and the processes
\* that hold one
LocalVertsOf(p, e) == {v \in vert_edge_global[e] : partition[v] = p}

HoldersOf(e) == {p \in Ranks : LocalVertsOf(p, e) # {}}

LowestHolder(e) == CHOOSE p \in HoldersOf(e) : \A q \in HoldersOf(e) : p <= q

GlobalWeight(e) ==
    IF Len(edge_weight_global) > 0 THEN edge_weight_global[e] ELSE 1

TrueEdgesMade == gr_step \in {"weight", "split", "D", "done"}

IsGraph == \A e \in GlobalEdges : Cardinality(vert_edge_global[e]) \in {1, 2}

WeightsSplit == gr_step \in {"D", "done"}

\* C24: for a graph, the split weight of (v, e) is twice the global weight
\* of e when e has two vertices (on one process or on two) and the global
\* weight itself when e has one vertex, never four times; without global
\* weights the global weight is 1.
C24_SplitWeights ==
    (WeightsSplit /\ IsGraph) =>
        \A p \in Ranks :
            \A v \in 1..Len(vertex_edge_local_[p]) :
                /\ Len(edge_weight_split_[p][v]) = Len(vertex_edge_local_[p][v])
                /\ \A i \in 1..Len(vertex_edge_local_[p][v]) :
                      LET e == edge_loc_to_glo_[p][vertex_edge_local_[p][v][i]]
                      IN  /\ vert_loc_to_glo_[p][v] \in vert_edge_global[e]
                          /\ edge_weight_split_[p][v][i] =
                                (IF Cardinality(vert_edge_global[e]) = 2
                                 THEN 2 ELSE 1)
                                * (IF edge_weight_global = << >> THEN 1
                                   ELSE edge_weight_global[e])

C24_Witness ==
    /\ WeightsSplit
    /\ IsGraph
    /\ num_procs = 2
    /\ edge_weight_global # << >>
    /\ \E e \in GlobalEdges : HoldersOf(e) = {0, 1}
    /\ \E e \in GlobalEdges :
          Cardinality(vert_edge_global[e]) = 2 /\ HoldersOf(e) = {0}
    /\ \E v \in 1..Len(edge_weight_split_[0]) :
          Len(edge_weight_split_[0][v]) = 2
          /\ edge_weight_split_[0][v][1] = 6
          /\ edge_weight_split_[0][v][2] = 10

\* a rescale step of the coarse (fine) level
RescaleCoarseStep ==
    \E coeff \in CoefVecs(1), junk \in CoefVals :
        RescaleCoarseCoefficient(coeff, junk)

RescaleFineStep == \E coeff \in CoefVecs(0) : RescaleFineCoefficient(coeff)

\* C7: RescaleCoarseCoefficient leaves the fine level's M, D and solver
\* unchanged, and RescaleFineCoefficient leaves the coarse level's.
C7_RescaleLevelLocal ==
    [][ /\ RescaleCoarseStep =>
              /\ M_'[Lv(0)] = M_[Lv(0)]
              /\ D_'[Lv(0)] = D_[Lv(0)]
              /\ solver_'[Lv(0)] = solver_[Lv(0)]
              /\ agg_scaling_'[Lv(0)] = agg_scaling_[Lv(0)]
        /\ RescaleFineStep =>
              /\ M_'[Lv(1)] = M_[Lv(1)]
              /\ D_'[Lv(1)] = D_[Lv(1)]
              /\ solver_'[Lv(1)] = solver_[Lv(1)]
              /\ agg_scaling_'[Lv(1)] = agg_scaling_[Lv(1)] ]_vars

\* the essential flux dofs of a level are eliminated: unit diagonal in M,
\* zero column in D
EssentialEliminated(l) ==
    \A e \in 1..Len(M_[l]) :
        UpMarker(l - 1)[e] = 1 => (M_[l][e] = 1 /\ D_[l].cols[e] = 0)

\* C30 (as claimed): without hybridization, after construction and after
\* any sequence of RescaleFineCoefficient, RescaleCoarseCoefficient and
\* MakeFineSolver calls, every level of a FiniteVolumeMLMC that has a solver
\* has its essential flux dofs eliminated in M and in D.
C30_EssentialSurvives ==
    (up_class \in {"MLMC_A", "MLMC_B"} /\ ~hybridization_ /\ up_pc = "ready")
        => \A l \in 1..Len(solver_) :
              solver_[l] # "none" => EssentialEliminated(l)

\* a HybridSolver exists only over element-wise built coarse M
HybridNeedsElementM ==
    \A l \in 1..Len(solver_) :
        (l > Lv(0) /\ solver_[l] = "HybridSolver")
            => mbuilder_[l] = "ElementMBuilder"

\* C8 (as claimed): a coarse HybridSolver is never built over a
\* coefficient-form M, and hybridization with coarse_components is rejected
\* by an assertion before any HybridSolver is created.
C8_RejectedBeforeAnyHybrid ==
    /\ HybridNeedsElementM
    /\ (hybridization_ /\ coarse_components_ /\ up_pc = "ready")
          => max_levels_ = 1
    /\ up_pc = "aborted" /\ hybridization_ /\ coarse_components_
          => \A l \in 1..Len(solver_) : solver_[l] # "HybridSolver"

\* C8 (amended): a coarse HybridSolver is never built over a
\* coefficient-form M, and hybridization with coarse_components is rejected
\* by an assertion before any coarse-level HybridSolver is created (the
\* fine-level HybridSolver of GraphUpscale already exists by then).
C8_RejectedBeforeCoarseHybrid ==
    /\ HybridNeedsElementM
    /\ (hybridization_ /\ coarse_components_ /\ up_pc = "ready")
          => max_levels_ = 1
    /\ up_pc = "aborted" /\ hybridization_ /\ coarse_components_
          => \A l \in 1..Len(solver_) :
                 l > Lv(0) => solver_[l] # "HybridSolver"

C8_Witness ==
    /\ up_pc = "aborted"
    /\ hybridization_
    /\ coarse_components_
    /\ up_class = "GraphUpscale"
    /\ solver_[Lv(0)] = "HybridSolver"
    /\ mbuilder_[Lv(1)] = "CoefficientMBuilder"

\* C9 (as claimed): from construction on, rhs_[l], sol_[l] and help_[l]
\* have the size of level l, for every level.
C9_AllSized ==
    \A l \in Levels :
        /\ Len(rhs_[l]) = LevelSize(l)
        /\ Len(sol_[l]) = LevelSize(l)
        /\ Len(help_[l]) = LevelSize(l)

\* C9 (amended): help_[l] on every level and rhs_[l], sol_[l] on the
\* levels l >= 1 have the size of level l from construction on; rhs_[0]
\* and sol_[0] are empty until the first Solve call and have the size of
\* level 0 from then on.
C9_SizedAfterSolve ==
    \A l \in Levels :
        /\ Len(help_[l]) = LevelSize(l)
        /\ (l > 0 \/ solves > 0) =>
               (Len(rhs_[l]) = LevelSize(l) /\ Len(sol_[l]) = LevelSize(l))
        /\ (l = 0 /\ solves = 0) => (rhs_[l] = << >> /\ sol_[l] = << >>)

C9_Witness ==
    /\ spc = "cycle"
    /\ num_levels_ >= 2
    /\ Len(stack) = num_levels_
    /\ solves = 2
    /\ C9_AllSized

\* C10 (as claimed): the coefficient held by a level solver is the one of
\* the exponent the solver was set up with, whatever later solves set.
C10_CoefficientOfOwnExponent ==
    \A l \in Levels :
        kp_[l] # << >> =>
            kp_[l] = [i \in 1..Len(p_[l]) |-> Exp(alpha_ctor * p_[l][i])]

=============================================================================
